---- MODULE Spec2Model ----
(***************************************************************************)
(* Model of the RVTools join-and-aggregate engine                          *)
(* (src/rvtools_extractor.py.py, class RVToolsComprehensiveExtractor).     *)
(*                                                                         *)
(* A pandas DataFrame is a record                                          *)
(*   [columns : Seq(STRING), dtypes : Seq(STRING), rows : Seq(Seq(Cell))]  *)
(* with one dtype per column ("number" for int64/float64, "object" for     *)
(* text, "bool") and one cell per column in every row.  Column labels are  *)
(* unique in every table of the model, as they are after pandas.read_csv.  *)
(* Column and category names are real strings; lower(), substring tests,   *)
(* replace() and the f-string prefixing are computed character by          *)
(* character.                                                              *)
(***************************************************************************)
EXTENDS Integers, Sequences, FiniteSets, TLC

VARIABLES
    pc,             \* position of the running call
    entry,          \* which public method was called
    df,             \* argument of the last aggregate_vm_data call
    aggregated_df,  \* value returned by the last aggregate_vm_data call
    path,           \* return path taken by the last aggregate_vm_data call
    csv_data,       \* the category -> table mapping, in insertion order
    base_key,       \* merge_all_vm_data: the selected base category
    base_df,        \* merge_all_vm_data: the aggregated base table
    result_df,      \* merge_all_vm_data: the running merged result
    merged_count,   \* merge_all_vm_data: number of merged data sources
    idx,            \* merge_all_vm_data: position of the loop over csv_data.items()
    before,         \* result_df and merged_count as they were before the last iteration
    log,            \* per loop iteration so far: the category and what was done with it
    merged_df,      \* the value merge_all_vm_data returned
    output,         \* what process returned
    converted_df,   \* value returned by a direct convert_mib_to_gb call on df
    reconverted_df, \* value returned by convert_mib_to_gb called on converted_df
    archive,        \* extract_and_read_all_csvs: the ZIP file and its members as os.walk yields them
    file_pos,       \* extract_and_read_all_csvs: number of members the loop has gone through
    all_files,      \* extract_and_read_all_csvs: the lower-cased names of the .csv members seen
    skipped_files,  \* extract_and_read_all_csvs: the lower-cased names of the files skipped
    report,         \* extract_and_read_all_csvs: what was printed for each .csv member
    include_all,            \* self.include_all
    comprehensive_output,   \* self.comprehensive_output
    filtered_df,    \* value returned by apply_power_filter called on merged_df
    final_df,       \* value returned by filter_output_columns called on filtered_df
    refiltered_df,  \* value returned by filter_output_columns called on final_df
    dir_exists,     \* process: whether the temporary extraction directory is on disk
    cleanup_calls,  \* process: number of calls of cleanup
    vm_specs,           \* generate_cost_report: the list of VM specs it is called with
    spec_pos,           \* generate_cost_report: number of specs the loop has gone through
    all_bom_lines,      \* generate_cost_report: the cost lines of all VMs
    vm_summaries,       \* generate_cost_report: the VM name -> summary dict, in insertion order
    powered_off_vms,    \* generate_cost_report: the specs left out as not powered on
    total_monthly,      \* generate_cost_report: the monthly total of the report, in cents
    component_totals    \* generate_cost_report: the component type -> cost dict, in insertion order

\* the variables of direct calls of the single stages
loadVars == <<archive, file_pos, all_files, skipped_files, report>>
shapeVars == <<include_all, comprehensive_output, filtered_df, final_df, refiltered_df>>
tempVars == <<dir_exists, cleanup_calls>>
costVars == <<vm_specs, spec_pos, all_bom_lines, vm_summaries, powered_off_vms,
              total_monthly, component_totals>>
callVars == <<converted_df, reconverted_df, loadVars, shapeVars, tempVars, costVars>>

vars == <<pc, entry, df, aggregated_df, path, csv_data, base_key, base_df,
          result_df, merged_count, idx, before, log, merged_df, output, callVars>>

---------------------------------------------------------------------------
(* Evaluation *)

\* F applied to the value of e: e is evaluated once, however often F uses it
Bind(e, F(_)) == CHOOSE r \in {F(v) : v \in {e}} : TRUE

---------------------------------------------------------------------------
(* Strings *)

UpperLetters == "ABCDEFGHIJKLMNOPQRSTUVWXYZ"
LowerLetters == "abcdefghijklmnopqrstuvwxyz"

\* str.lower() on one character
LowerChar(c) ==
    IF \E i \in 1..Len(UpperLetters) : SubSeq(UpperLetters, i, i) = c
    THEN LET i == CHOOSE j \in 1..Len(UpperLetters) : SubSeq(UpperLetters, j, j) = c
         IN  SubSeq(LowerLetters, i, i)
    ELSE c

RECURSIVE LowerFrom(_, _)
\* s[i:].lower()
LowerFrom(s, i) ==
    IF i > Len(s) THEN ""
    ELSE LowerChar(SubSeq(s, i, i)) \o LowerFrom(s, i + 1)
\* str.lower()
Lower(s) == Bind(s, LAMBDA v : LowerFrom(v, 1))

\* Python's `sub in s` on strings
Contains(s, sub) ==
    \E v \in {s} : \E i \in 1..(Len(v) - Len(sub) + 1) : SubSeq(v, i, i + Len(sub) - 1) = sub

RECURSIVE ReplaceFrom(_, _, _, _)
\* s[i:].replace(old, new)
ReplaceFrom(s, i, old, new) ==
    IF Len(s) - i + 1 < Len(old) THEN SubSeq(s, i, Len(s))
    ELSE IF SubSeq(s, i, i + Len(old) - 1) = old
         THEN new \o ReplaceFrom(s, i + Len(old), old, new)
         ELSE SubSeq(s, i, i) \o ReplaceFrom(s, i + 1, old, new)
\* str.replace(old, new): every non-overlapping occurrence, left to right
Replace(s, old, new) == Bind(s, LAMBDA v : ReplaceFrom(v, 1, old, new))

\* membership and position in a list
InSeq(x, seq) == \E i \in 1..Len(seq) : seq[i] = x
IndexOf(x, seq) == CHOOSE i \in 1..Len(seq) : seq[i] = x /\ \A j \in 1..(i - 1) : seq[j] # x

\* a function on 1..n as a tuple
Tup(f) == f \o << >>

\* the indices 1..n as a list
Indices(n) == Tup([i \in 1..n |-> i])

---------------------------------------------------------------------------
(* Cells: null (NaN), exact rationals n/d, strings, booleans *)

Null == [k |-> "null", n |-> 0, d |-> 1, s |-> ""]
Num(i) == [k |-> "num", n |-> i, d |-> 1, s |-> ""]
Str(t) == [k |-> "str", n |-> 0, d |-> 1, s |-> t]
Bool(b) == [k |-> "bool", n |-> IF b THEN 1 ELSE 0, d |-> 1, s |-> ""]
IsNull(c) == c.k = "null"

RECURSIVE Gcd(_, _)
Gcd(a, b) == IF b = 0 THEN a ELSE Gcd(b, a % b)
Abs(a) == IF a < 0 THEN -a ELSE a
\* the number n/d (d > 0) in lowest terms
Frac(n, d) ==
    LET g == Gcd(Abs(n), d)
    IN  [k |-> "num", n |-> n \div g, d |-> d \div g, s |-> ""]

\* round(n/d, 2) to the nearest hundredth, exact halves to the even neighbour
\* (numpy's round), for n >= 0
Round2(n, d) ==
    LET q == (100 * n) \div d
        r == (100 * n) % d
        h == IF 2 * r > d \/ (2 * r = d /\ q % 2 = 1) THEN q + 1 ELSE q
    IN  Frac(h, 100)

---------------------------------------------------------------------------
(* Tables *)

VM_UUID == "VM UUID"

EmptyFrame == [columns |-> << >>, dtypes |-> << >>, rows |-> << >>]   \* pd.DataFrame()

HasColumn(t, c) == InSeq(c, t.columns)
Col(t, c) == IndexOf(c, t.columns)
\* DataFrame.empty: an axis of length 0
IsEmpty(t) == Len(t.rows) = 0 \/ Len(t.columns) = 0
\* the set of values of the key column
KeySet(t) == IF HasColumn(t, VM_UUID) THEN {t.rows[i][Col(t, VM_UUID)] : i \in 1..Len(t.rows)} ELSE {}
\* the number of rows whose key is k
KeyCount(t, k) == Cardinality({i \in 1..Len(t.rows) : t.rows[i][Col(t, VM_UUID)] = k})

\* pd.api.types.is_numeric_dtype: integers, floats and booleans
IsNumericDtype(dt) == dt \in {"number", "bool"}

\* DataFrame.drop(columns=[c])
DropColumn(t, c) ==
    \* keep: the positions of the other columns
    Bind(SelectSeq(Indices(Len(t.columns)), LAMBDA j : t.columns[j] # c), LAMBDA keep :
        [columns |-> Tup([j \in 1..Len(keep) |-> t.columns[keep[j]]]),
         dtypes  |-> Tup([j \in 1..Len(keep) |-> t.dtypes[keep[j]]]),
         rows    |-> Tup([i \in 1..Len(t.rows) |-> Tup([j \in 1..Len(keep) |-> t.rows[i][keep[j]]])])])

\* df[c] = vals: an existing column is overwritten in place, a new one is appended
SetColumn(t, c, dt, vals) ==
    IF HasColumn(t, c)
    THEN [columns |-> t.columns,
          dtypes  |-> [t.dtypes EXCEPT ![Col(t, c)] = dt],
          rows    |-> Tup([i \in 1..Len(t.rows) |-> [t.rows[i] EXCEPT ![Col(t, c)] = vals[i]]])]
    ELSE [columns |-> Append(t.columns, c),
          dtypes  |-> Append(t.dtypes, dt),
          rows    |-> Tup([i \in 1..Len(t.rows) |-> Append(t.rows[i], vals[i])])]

---------------------------------------------------------------------------
(* convert_mib_to_gb *)

MibDivisor == 1024
MbDivisor == 1000

\* the columns the first pass converts
MibColumns(t) ==
    SelectSeq(t.columns, LAMBDA c : Contains(Lower(c), "mib") /\ IsNumericDtype(t.dtypes[Col(t, c)]))
\* the columns the second pass converts
MbColumns(t) ==
    SelectSeq(t.columns, LAMBDA c : /\ Contains(Lower(c), "mb")
                                    /\ ~Contains(Lower(c), "mbps")
                                    /\ IsNumericDtype(t.dtypes[Col(t, c)]))

\* MibNewName giving every separator style the underscore
MibNewNameOneStyle(c) == Replace(Replace(Replace(c, " MiB", "_GB"), "_MiB", "_GB"), "MiB", "_GB")

MibNewName(c) == Replace(Replace(Replace(c, " MiB", " GB"), "_MiB", "_GB"), "MiB", "_GB")
MbNewName(c) == Replace(Replace(Replace(c, " MB", " GB"), "_MB", "_GB"), "MB", "_GB")

\* (series / divisor).round(2)
Scaled(cell, divisor) == IF IsNull(cell) THEN Null ELSE Round2(cell.n, cell.d * divisor)

\* one iteration of a conversion loop: store under the new name, drop the source
ConvertOne(t, c, new, divisor) ==
    Bind(Tup([i \in 1..Len(t.rows) |-> Scaled(t.rows[i][Col(t, c)], divisor)]), LAMBDA vals :
        Bind(SetColumn(t, new, "number", vals), LAMBDA stored : DropColumn(stored, c)))

RECURSIVE ConvertMibLoop(_, _, _)
\* the first loop from its i-th column on
ConvertMibLoop(t, cols, i) ==
    IF i > Len(cols) THEN t
    ELSE Bind(ConvertOne(t, cols[i], MibNewName(cols[i]), MibDivisor), LAMBDA next :
             ConvertMibLoop(next, cols, i + 1))

RECURSIVE ConvertMbLoop(_, _, _)
\* the second loop from its i-th column on
ConvertMbLoop(t, cols, i) ==
    IF i > Len(cols) THEN t
    ELSE Bind(ConvertOne(t, cols[i], MbNewName(cols[i]), MbDivisor), LAMBDA next :
             ConvertMbLoop(next, cols, i + 1))

convert_mib_to_gb(df0) ==
    Bind(df0, LAMBDA t :
        Bind(MibColumns(t), LAMBDA mib_columns :
            Bind(ConvertMibLoop(t, mib_columns, 1), LAMBDA afterMib :
                Bind(MbColumns(afterMib), LAMBDA mb_columns :
                    ConvertMbLoop(afterMib, mb_columns, 1)))))

---------------------------------------------------------------------------
(* aggregate_vm_data *)

\* self.aggregation_rules, by operation
SumRuleNames == {"Capacity MiB", "In Use MiB", "Free MiB", "Provisioned MiB", "VMDK Size MiB",
                 "Size MiB", "Speed Mbps", "Capacity MB", "Consumed MB", "Free MB",
                 "Num Disks", "Num NICs"}
CountRuleNames == {"Num Snapshots"}
ConcatRuleNames == {"Network", "MAC Address", "IP Address", "Disk Path", "Datastore"}

HasRule(c) == c \in SumRuleNames \cup CountRuleNames \cup ConcatRuleNames
\* self.aggregation_rules[c]; "concat_rule" is the lambda of the rule table
aggregation_rules(c) ==
    IF c \in SumRuleNames THEN "sum"
    ELSE IF c \in CountRuleNames THEN "count"
    ELSE "concat_rule"

\* the words that make an unlisted numeric column default to sum
SumWords == <<"size", "capacity", "mib", "gb", "mb", "count", "num">>
\* the unlisted text columns that default to first
FirstNames == {"vm", "name", "powerstate", "os", "cluster", "host", "datacenter"}

\* df.select_dtypes(include=[np.number]) and (include=['object']), key removed
numeric_cols(t) == SelectSeq(t.columns, LAMBDA c : c # VM_UUID /\ t.dtypes[Col(t, c)] = "number")
text_cols(t) == SelectSeq(t.columns, LAMBDA c : c # VM_UUID /\ t.dtypes[Col(t, c)] = "object")

\* the entry of agg_dict for a numeric column
NumericOp(c) ==
    IF HasRule(c) THEN aggregation_rules(c)
    ELSE IF \E lc \in {Lower(c)} : \E w \in 1..Len(SumWords) : Contains(lc, SumWords[w]) THEN "sum"
    ELSE "mean"
\* the entry of agg_dict for a text column; "concat_default" is the inline lambda
TextOp(c) ==
    IF HasRule(c) THEN aggregation_rules(c)
    ELSE IF Lower(c) \in FirstNames THEN "first"
    ELSE "concat_default"

\* the keys of agg_dict in insertion order: numeric columns, then text columns
AggCols(t) == numeric_cols(t) \o text_cols(t)
\* agg_dict[c]
AggOp(t, c) == IF t.dtypes[Col(t, c)] = "number" THEN NumericOp(c) ELSE TextOp(c)

\* the order groupby sorts string keys in
KeyOrder == <<"A", "B", "C">>
KeyLess(a, b) == IF a.k = "num" THEN a.n < b.n ELSE IndexOf(a.s, KeyOrder) < IndexOf(b.s, KeyOrder)

RECURSIVE SortKeys(_)
SortKeys(S) ==
    IF S = {} THEN << >>
    ELSE LET m == CHOOSE x \in S : \A y \in S \ {x} : KeyLess(x, y)
         IN  <<m>> \o SortKeys(S \ {m})

\* the group keys of df.groupby(vm_uuid_col): the non-null keys, sorted
GroupKeys(t) == SortKeys({k \in KeySet(t) : ~IsNull(k)})
\* the values of column c in the group of key k, in row order
GroupValues(t, c, k) ==
    Bind(SelectSeq(Indices(Len(t.rows)), LAMBDA i : t.rows[i][Col(t, VM_UUID)] = k), LAMBDA rws :
        Tup([j \in 1..Len(rws) |-> t.rows[rws[j]][Col(t, c)]]))

\* x.dropna()
DropNa(x) == SelectSeq(x, LAMBDA c : ~IsNull(c))

RECURSIVE Unique(_)
\* x.unique(): the distinct values in first-seen order
Unique(x) ==
    IF x = << >> THEN << >>
    ELSE Bind(SubSeq(x, 1, Len(x) - 1), LAMBDA init :
             IF InSeq(x[Len(x)], init) THEN Unique(init) ELSE Append(Unique(init), x[Len(x)]))

RECURSIVE SumCells(_)
SumCells(x) ==
    IF x = << >> THEN Num(0)
    ELSE Bind(SumCells(Tail(x)), LAMBDA r :
             Frac(Head(x).n * r.d + r.n * Head(x).d, Head(x).d * r.d))

RECURSIVE JoinStr(_)
\* ' | '.join(x)
JoinStr(x) ==
    IF x = << >> THEN ""
    ELSE IF Len(x) = 1 THEN x[1].s
    ELSE x[1].s \o " | " \o JoinStr(Tail(x))

\* the rule table's lambda
ConcatRule(x) ==
    Bind(DropNa(x), LAMBDA kept : IF Len(kept) > 0 THEN Str(JoinStr(Unique(kept))) ELSE Str(""))
\* the inline lambda of the text-column default
ConcatDefault(x) ==
    Bind(DropNa(x), LAMBDA kept :
        IF Len(kept) > 1 THEN Str(JoinStr(Unique(kept)))
        ELSE IF Len(kept) > 0 THEN x[1]
        ELSE Str(""))

\* groupby 'first': the first non-null value of the group
FirstCell(x) == Bind(DropNa(x), LAMBDA kept : IF kept = << >> THEN Null ELSE kept[1])
MeanCell(x) ==
    Bind(DropNa(x), LAMBDA kept :
        IF kept = << >> THEN Null
        ELSE Bind(SumCells(kept), LAMBDA total : Frac(total.n, total.d * Len(kept))))

\* ApplyOp with 'sum' keeping only the first value of the group
ApplyOpSumKeepsFirst(op, x) ==
    CASE op = "sum" -> FirstCell(x)
      [] op = "mean" -> MeanCell(x)
      [] op = "count" -> Num(Len(DropNa(x)))
      [] op = "first" -> FirstCell(x)
      [] op = "concat_rule" -> ConcatRule(x)
      [] op = "concat_default" -> ConcatDefault(x)

\* one cell of the aggregated table
ApplyOp(op, x) ==
    CASE op = "sum" -> SumCells(DropNa(x))
      [] op = "mean" -> MeanCell(x)
      [] op = "count" -> Num(Len(DropNa(x)))
      [] op = "first" -> FirstCell(x)
      [] op = "concat_rule" -> ConcatRule(x)
      [] op = "concat_default" -> ConcatDefault(x)

\* the dtype of an aggregated column
OpDtype(op, dt) ==
    IF op \in {"sum", "mean", "count"} THEN "number"
    ELSE IF op = "first" THEN dt
    ELSE "object"

\* ' | '.join over numbers raises TypeError: the rule table's lambda on a numeric
\* column, in a group that has a value
AggRaises(t) ==
    \E c \in {t.columns[j] : j \in 1..Len(t.columns)} :
        /\ c # VM_UUID
        /\ t.dtypes[Col(t, c)] = "number"
        /\ AggOp(t, c) = "concat_rule"
        /\ \E k \in KeySet(t) : ~IsNull(k) /\ DropNa(GroupValues(t, c, k)) # << >>

\* df.groupby(vm_uuid_col).agg(agg_dict).reset_index()
GroupAgg(t) ==
    Bind(GroupKeys(t), LAMBDA keys :
        Bind(AggCols(t), LAMBDA cols :
            \* agg_dict, built before the groupby
            Bind(Tup([j \in 1..Len(cols) |-> AggOp(t, cols[j])]), LAMBDA agg_dict :
                [columns |-> <<VM_UUID>> \o cols,
                 dtypes  |-> <<t.dtypes[Col(t, VM_UUID)]>> \o
                             Tup([j \in 1..Len(cols) |-> OpDtype(agg_dict[j], t.dtypes[Col(t, cols[j])])]),
                 rows    |-> Tup([g \in 1..Len(keys) |->
                                <<keys[g]>> \o
                                Tup([j \in 1..Len(cols) |->
                                    Bind(GroupValues(t, cols[j], keys[g]), LAMBDA x :
                                        ApplyOp(agg_dict[j], x))])])])))

\* df.groupby(vm_uuid_col).first().reset_index()
GroupFirst(t) ==
    Bind(GroupKeys(t), LAMBDA keys :
        Bind(SelectSeq(t.columns, LAMBDA c : c # VM_UUID), LAMBDA cols :
            [columns |-> <<VM_UUID>> \o cols,
             dtypes  |-> <<t.dtypes[Col(t, VM_UUID)]>> \o Tup([j \in 1..Len(cols) |-> t.dtypes[Col(t, cols[j])]]),
             rows    |-> Tup([g \in 1..Len(keys) |->
                            <<keys[g]>> \o
                            Tup([j \in 1..Len(cols) |-> FirstCell(GroupValues(t, cols[j], keys[g]))])])]))

\* df[vm_uuid_col].value_counts().max() == 1: nulls are not counted, and the
\* maximum of no counts is NaN
NoDuplicates(t) ==
    /\ \E k \in KeySet(t) : ~IsNull(k)
    /\ \A k \in KeySet(t) : ~IsNull(k) => KeyCount(t, k) = 1

\* groupby(...).first() raises on no table of the model
FirstRaises(t) == FALSE

\* the return statement aggregate_vm_data leaves by
AggPath(t) ==
    IF ~HasColumn(t, VM_UUID) \/ IsEmpty(t) THEN "unchanged"
    ELSE IF NoDuplicates(t) THEN "shortcut"
    ELSE IF AggCols(t) # << >> /\ ~AggRaises(t) THEN "aggregated"
    ELSE IF FirstRaises(t) THEN "final_fallback"
    ELSE IF AggCols(t) = << >> THEN "first_no_rules"
    ELSE "first_fallback"

\* aggregate_vm_data converting the units before it groups
aggregate_vm_data_ConvertFirst(df0) ==
    Bind(df0, LAMBDA t :
        Bind(AggPath(t), LAMBDA p :
            CASE p = "unchanged" -> t
              [] p = "shortcut" -> convert_mib_to_gb(t)
              [] p = "aggregated" -> GroupAgg(convert_mib_to_gb(t))
              [] p \in {"first_no_rules", "first_fallback"} -> GroupFirst(convert_mib_to_gb(t))
              [] p = "final_fallback" -> convert_mib_to_gb(t)))

aggregate_vm_data(df0) ==
    Bind(df0, LAMBDA t :
        Bind(AggPath(t), LAMBDA p :
            CASE p = "unchanged" -> t
              [] p = "shortcut" -> convert_mib_to_gb(t)
              [] p = "aggregated" -> convert_mib_to_gb(GroupAgg(t))
              [] p \in {"first_no_rules", "first_fallback"} -> convert_mib_to_gb(GroupFirst(t))
              [] p = "final_fallback" -> convert_mib_to_gb(t)))

---------------------------------------------------------------------------
(* merge_all_vm_data *)

\* the preferred base categories, in priority order
base_options == <<"cpu", "info", "memory", "disk", "network", "tools">>

\* csv_data is a list of [key, df] entries in insertion order (a Python dict)
HasKey(data, k) == \E i \in 1..Len(data) : data[i].key = k
Lookup(data, k) == data[CHOOSE i \in 1..Len(data) : data[i].key = k].df

\* opt in csv_data and not csv_data[opt].empty and 'VM UUID' in csv_data[opt].columns
Qualifies(data, opt) ==
    /\ HasKey(data, opt)
    /\ ~IsEmpty(Lookup(data, opt))
    /\ HasColumn(Lookup(data, opt), VM_UUID)

\* SelectBaseKey scanning the mapping in insertion order instead of the list
SelectBaseKeyByInsertion(data) ==
    IF \E i \in 1..Len(data) : InSeq(data[i].key, base_options) /\ Qualifies(data, data[i].key)
    THEN data[CHOOSE i \in 1..Len(data) :
                 /\ InSeq(data[i].key, base_options) /\ Qualifies(data, data[i].key)
                 /\ \A j \in 1..(i - 1) :
                        ~(InSeq(data[j].key, base_options) /\ Qualifies(data, data[j].key))].key
    ELSE ""

\* SelectBaseKey falling back to the first usable table of any category
SelectBaseKeyAnyTable(data) ==
    IF \E o \in 1..Len(base_options) : Qualifies(data, base_options[o])
    THEN base_options[CHOOSE o \in 1..Len(base_options) :
                         /\ Qualifies(data, base_options[o])
                         /\ \A q \in 1..(o - 1) : ~Qualifies(data, base_options[q])]
    ELSE IF \E i \in 1..Len(data) : Qualifies(data, data[i].key)
    THEN data[CHOOSE i \in 1..Len(data) :
                 /\ Qualifies(data, data[i].key)
                 /\ \A j \in 1..(i - 1) : ~Qualifies(data, data[j].key)].key
    ELSE ""

\* the loop over base_options: the first option that qualifies, "" (None) if none does
SelectBaseKey(data) ==
    IF \E o \in 1..Len(base_options) : Qualifies(data, base_options[o])
    THEN base_options[CHOOSE o \in 1..Len(base_options) :
                         /\ Qualifies(data, base_options[o])
                         /\ \A q \in 1..(o - 1) : ~Qualifies(data, base_options[q])]
    ELSE ""

\* f"{data_type}_{col}" if col != 'VM UUID' else col
PrefixName(data_type, c) == IF c # VM_UUID THEN data_type \o "_" \o c ELSE c
\* the table with its columns renamed
Renamed(data_type, t) ==
    [t EXCEPT !.columns = Tup([j \in 1..Len(t.columns) |-> PrefixName(data_type, t.columns[j])])]

\* the labels both sides of a merge have, the key aside: pandas appends a suffix to them
Overlap(l, r) == {c \in {l.columns[j] : j \in 1..Len(l.columns)} : c # VM_UUID /\ HasColumn(r, c)}
Suffixed(l, r, c, suffix) == IF c \in Overlap(l, r) THEN c \o suffix ELSE c
LeftLabels(l, r) == Tup([j \in 1..Len(l.columns) |-> Suffixed(l, r, l.columns[j], "_x")])
RightLabels(l, r) ==
    Bind(SelectSeq(r.columns, LAMBDA c : c # VM_UUID), LAMBDA rc :
        Tup([j \in 1..Len(rc) |-> Suffixed(l, r, rc[j], "_y")]))
IsUnique(labels) == \A v \in {labels} : \A i, j \in 1..Len(v) : v[i] = v[j] => i = j

\* DataFrame.merge raises: not both key columns are text or both are numbers
\* (ValueError), or the suffixes make two labels of one side equal (MergeError)
MergeRaises(l, r) ==
    \/ l.dtypes[Col(l, VM_UUID)] # r.dtypes[Col(r, VM_UUID)]
    \/ ~IsUnique(LeftLabels(l, r))
    \/ ~IsUnique(RightLabels(l, r))

\* the cells of row rw of r, the key aside
NonKeyCells(r, rw) ==
    Bind(SelectSeq(Indices(Len(r.columns)), LAMBDA j : r.columns[j] # VM_UUID), LAMBDA js :
        Tup([j \in 1..Len(js) |-> rw[js[j]]]))

RECURSIVE InnerJoinRows(_, _, _)
\* LeftJoinRows as an inner join: a left row without a match is dropped
InnerJoinRows(l, r, i) ==
    IF i > Len(l.rows) THEN << >>
    ELSE Bind(SelectSeq(Indices(Len(r.rows)),
                        LAMBDA j : r.rows[j][Col(r, VM_UUID)] = l.rows[i][Col(l, VM_UUID)]), LAMBDA ms :
             Tup([m \in 1..Len(ms) |-> l.rows[i] \o NonKeyCells(r, r.rows[ms[m]])])
             \o InnerJoinRows(l, r, i + 1))

RECURSIVE ZeroFilledJoinRows(_, _, _)
\* LeftJoinRows filling a left row without a match with zeros
ZeroFilledJoinRows(l, r, i) ==
    IF i > Len(l.rows) THEN << >>
    ELSE Bind(SelectSeq(Indices(Len(r.rows)),
                        LAMBDA j : r.rows[j][Col(r, VM_UUID)] = l.rows[i][Col(l, VM_UUID)]), LAMBDA ms :
             (IF ms = << >> THEN << l.rows[i] \o Tup([j \in 1..(Len(r.columns) - 1) |-> Num(0)]) >>
              ELSE Tup([m \in 1..Len(ms) |-> l.rows[i] \o NonKeyCells(r, r.rows[ms[m]])]))
             \o ZeroFilledJoinRows(l, r, i + 1))

RECURSIVE LeftJoinRows(_, _, _)
\* the rows of the left join from left row i on: every left row, once per
\* right row with an equal key (two null keys are equal), once with nulls if none
LeftJoinRows(l, r, i) ==
    IF i > Len(l.rows) THEN << >>
    ELSE Bind(SelectSeq(Indices(Len(r.rows)),
                        LAMBDA j : r.rows[j][Col(r, VM_UUID)] = l.rows[i][Col(l, VM_UUID)]), LAMBDA ms :
             (IF ms = << >> THEN << l.rows[i] \o Tup([j \in 1..(Len(r.columns) - 1) |-> Null]) >>
              ELSE Tup([m \in 1..Len(ms) |-> l.rows[i] \o NonKeyCells(r, r.rows[ms[m]])]))
             \o LeftJoinRows(l, r, i + 1))

\* the dtype of a column of the right side in the result: a bool column that
\* gets a null becomes object
JoinedDtype(l, r, dt) ==
    IF dt = "bool" /\ \E i \in 1..Len(l.rows) :
                          \A j \in 1..Len(r.rows) : r.rows[j][Col(r, VM_UUID)] # l.rows[i][Col(l, VM_UUID)]
    THEN "object" ELSE dt

\* result_df.merge(merge_df, on='VM UUID', how='left')
LeftMerge(l0, r0) ==
    Bind(l0, LAMBDA l : Bind(r0, LAMBDA r :
        Bind(SelectSeq(Indices(Len(r.columns)), LAMBDA j : r.columns[j] # VM_UUID), LAMBDA js :
            [columns |-> LeftLabels(l, r) \o RightLabels(l, r),
             dtypes  |-> l.dtypes \o Tup([j \in 1..Len(js) |-> JoinedDtype(l, r, r.dtypes[js[j]])]),
             rows    |-> LeftJoinRows(l, r, 1)])))

---------------------------------------------------------------------------
(* extract_and_read_all_csvs *)

\* self.vm_data_files, in the order of the dict literal
vm_data_files ==
    << [key |-> "cpu", pattern |-> "tabvcpu"],
       [key |-> "memory", pattern |-> "tabvmemory"],
       [key |-> "disk", pattern |-> "tabvdisk"],
       [key |-> "network", pattern |-> "tabvnetwork"],
       [key |-> "nic", pattern |-> "tabvnic"],
       [key |-> "snapshot", pattern |-> "tabvsnapshot"],
       [key |-> "partition", pattern |-> "tabvpartition"],
       [key |-> "info", pattern |-> "tabvinfo"],
       [key |-> "tools", pattern |-> "tabvtools"],
       [key |-> "cd", pattern |-> "tabvcd"],
       [key |-> "multipath", pattern |-> "tabvmultipath"],
       [key |-> "sc_vmk", pattern |-> "tabvsc_vmk"],
       [key |-> "rp", pattern |-> "tabvrp"],
       [key |-> "fileinfo", pattern |-> "tabvfileinfo"] >>

\* str.endswith
EndsWith(s, suffix) ==
    Len(s) >= Len(suffix) /\ SubSeq(s, Len(s) - Len(suffix) + 1, Len(s)) = suffix

\* str.strip() of blanks
Strip(s) ==
    LET kept == {i \in 1..Len(s) : SubSeq(s, i, i) # " "}
    IN  IF kept = {} THEN ""
        ELSE SubSeq(s, CHOOSE a \in kept : \A b \in kept : a <= b,
                       CHOOSE a \in kept : \A b \in kept : a >= b)

\* df.columns = df.columns.str.strip()
StripColumns(t) ==
    [t EXCEPT !.columns = Tup([i \in 1..Len(t.columns) |-> Strip(t.columns[i])])]

\* the positions in vm_data_files of the patterns found in the file name
Matching(filename) ==
    {i \in 1..Len(vm_data_files) : Contains(filename, vm_data_files[i].pattern)}

\* FileKey keeping the last pattern found instead of breaking at the first
FileKeyLastMatch(filename) ==
    LET m == Matching(filename)
    IN  IF m = {} THEN "" ELSE vm_data_files[CHOOSE i \in m : \A j \in m : j <= i].key

\* the loop over vm_data_files.items() with its break; "" stands for None
FileKey(filename) ==
    LET m == Matching(filename)
    IN  IF m = {} THEN "" ELSE vm_data_files[CHOOSE i \in m : \A j \in m : i <= j].key

\* filename.replace('rvtools_', '').replace('.csv', '')
CleanName(filename) == Replace(Replace(filename, "rvtools_", ""), ".csv", "")

\* csv_data[k] = t: a key already there keeps its place and gets the new table
Store(data, k, t) ==
    IF \E i \in 1..Len(data) : data[i].key = k
    THEN Tup([i \in 1..Len(data) |-> IF data[i].key = k THEN [key |-> k, df |-> t] ELSE data[i]])
    ELSE Append(data, [key |-> k, df |-> t])

\* NoRows never true: a table without rows is stored
NoRowsIgnored(t) == FALSE

\* len(df) == 0
NoRows(t) == Len(t.rows) = 0

---------------------------------------------------------------------------
(* apply_power_filter and filter_output_columns *)

\* the loop over df.columns with its break: the first column whose lower-cased
\* name holds 'powerstate'; "" stands for None
PowerCol(t) ==
    LET m == {j \in 1..Len(t.columns) : Contains(Lower(t.columns[j]), "powerstate")}
    IN  IF m = {} THEN "" ELSE t.columns[CHOOSE j \in m : \A i \in m : j <= i]

\* Series.str raises AttributeError unless the values are inferred as text:
\* a column that is not of object dtype raises, and so does an object column
\* whose non-null values are all numbers or all booleans
StrRaises(t, c) ==
    LET j == Col(t, c)
        nonnull == {i \in 1..Len(t.rows) : ~IsNull(t.rows[i][j])}
    IN  \/ t.dtypes[j] # "object"
        \/ /\ nonnull # {}
           /\ \E kind \in {"num", "bool"} : \A i \in nonnull : t.rows[i][j].k = kind

\* IsPoweredOn comparing the value as it is written
IsPoweredOnExact(cell) == cell.k = "str" /\ cell.s = "poweredon"

\* .str.lower() == 'poweredon' for one value: .str.lower() gives NaN for a
\* null or a value that is not text, and NaN == 'poweredon' is False
IsPoweredOn(cell) == cell.k = "str" /\ Lower(cell.s) = "poweredon"

\* apply_power_filter(df): whether it raised, and the table it returned
apply_power_filter(t, incl) ==
    IF incl \/ IsEmpty(t) THEN [raised |-> FALSE, df |-> t]
    ELSE Bind(PowerCol(t), LAMBDA power_col :
             IF power_col = "" THEN [raised |-> FALSE, df |-> t]
             ELSE IF StrRaises(t, power_col) THEN [raised |-> TRUE, df |-> EmptyFrame]
             ELSE [raised |-> FALSE,
                   df |-> [t EXCEPT !.rows =
                              SelectSeq(t.rows, LAMBDA r : IsPoweredOn(r[Col(t, power_col)]))]])

priority_patterns ==
    <<"cpu_vm", "cpu_cpus", "memory_size gb", "disk_capacity gb",
      "cpu_os according to the configuration file">>
secondary_patterns == <<"cpu_powerstate", "cpu_annotation">>
fallback_patterns == <<"vm", "cpu", "memory", "disk", "powerstate">>
MinEssential == 5
FallbackCap == 2

\* col.lower() for every column of the table
LowerColumns(t) == Tup([j \in 1..Len(t.columns) |-> Lower(t.columns[j])])
\* [col for col in df.columns if keep(col.lower(), col)], low being LowerColumns(t)
ColumnsWhere(t, low, keep(_, _)) ==
    Bind(SelectSeq(Indices(Len(low)), LAMBDA j : keep(low[j], t.columns[j])), LAMBDA at :
        Tup([j \in 1..Len(at) |-> t.columns[at[j]]]))

RECURSIVE ExtendExact(_, _, _, _, _)
\* for pattern in patterns[i:]: essential_columns.extend(the columns whose
\* lower-cased name equals the lower-cased pattern)
ExtendExact(essential, t, low, patterns, i) ==
    IF i > Len(patterns) THEN essential
    ELSE Bind(Lower(patterns[i]), LAMBDA pattern :
             ExtendExact(essential \o ColumnsWhere(t, low, LAMBDA l, col : l = pattern),
                         t, low, patterns, i + 1))

\* Capped leaving out the first match
CappedAfterFirst(matches) ==
    SubSeq(matches, 2, IF Len(matches) < FallbackCap + 1 THEN Len(matches) ELSE FallbackCap + 1)

\* matches[:2]
Capped(matches) ==
    SubSeq(matches, 1, IF Len(matches) < FallbackCap THEN Len(matches) ELSE FallbackCap)

RECURSIVE ExtendFallback(_, _, _, _)
\* for pattern in fallback_patterns[i:]: extend by the first two columns that
\* hold the pattern and are not in essential_columns yet
ExtendFallback(essential, t, low, i) ==
    IF i > Len(fallback_patterns) THEN essential
    ELSE Bind(essential, LAMBDA e :
             Bind(e \o Capped(ColumnsWhere(t, low, LAMBDA l, col :
                                  Contains(l, fallback_patterns[i]) /\ ~InSeq(col, e))),
                  LAMBDA extended : ExtendFallback(extended, t, low, i + 1)))

\* essential_columns as line 394 finds it
EssentialColumns(t) ==
    Bind(LowerColumns(t), LAMBDA low :
        Bind(ExtendExact(IF HasColumn(t, VM_UUID) THEN <<VM_UUID>> ELSE << >>,
                         t, low, priority_patterns, 1), LAMBDA primary :
            Bind(Unique(ExtendExact(primary, t, low, secondary_patterns, 1)), LAMBDA e :
                IF Len(e) < MinEssential THEN ExtendFallback(e, t, low, 1) ELSE e)))

\* df[cols]
SelectColumns(t, cols) ==
    Bind(Tup([j \in 1..Len(cols) |-> Col(t, cols[j])]), LAMBDA at :
        [columns |-> cols,
         dtypes  |-> Tup([j \in 1..Len(at) |-> t.dtypes[at[j]]]),
         rows    |-> Tup([i \in 1..Len(t.rows) |-> Tup([j \in 1..Len(at) |-> t.rows[i][at[j]]])])])

filter_output_columns(t, comprehensive) ==
    IF comprehensive THEN t
    ELSE Bind(EssentialColumns(t), LAMBDA essential_columns :
             SelectColumns(t, SelectSeq(essential_columns, LAMBDA col : HasColumn(t, col))))

---------------------------------------------------------------------------
(* The calls: merge_all_vm_data step by step, and process around it *)

Snapshot == [df |-> result_df, count |-> merged_count]

\* aggregate_vm_data(t) is called: its argument, its result and its return path
AggregateCalled(t) ==
    /\ df' = t
    /\ aggregated_df' = aggregate_vm_data(t)
    /\ path' = AggPath(t)

\* process: "if not csv_data: return None"
ProcessNoData ==
    /\ pc = "process"
    /\ csv_data = << >>
    /\ output' = "None"
    /\ pc' = "done"
    /\ UNCHANGED <<entry, df, aggregated_df, path, csv_data, base_key, base_df,
                   result_df, merged_count, idx, before, log, merged_df>>
    /\ UNCHANGED callVars

\* process: merged_df = self.merge_all_vm_data(csv_data)
ProcessCallMerge ==
    /\ pc = "process"
    /\ csv_data # << >>
    /\ pc' = "merge"
    /\ UNCHANGED <<entry, df, aggregated_df, path, csv_data, base_key, base_df,
                   result_df, merged_count, idx, before, log, merged_df, output>>
    /\ UNCHANGED callVars

\* merge_all_vm_data: "if not csv_data: return pd.DataFrame()"
MergeNoData ==
    /\ pc = "merge"
    /\ csv_data = << >>
    /\ merged_df' = EmptyFrame
    /\ pc' = "merge_returned"
    /\ UNCHANGED <<entry, df, aggregated_df, path, csv_data, base_key, base_df,
                   result_df, merged_count, idx, before, log, output>>
    /\ UNCHANGED callVars

\* merge_all_vm_data: no option qualifies, "return pd.DataFrame()"
MergeNoBase ==
    /\ pc = "merge"
    /\ csv_data # << >>
    /\ SelectBaseKey(csv_data) = ""
    /\ merged_df' = EmptyFrame
    /\ pc' = "merge_returned"
    /\ UNCHANGED <<entry, df, aggregated_df, path, csv_data, base_key, base_df,
                   result_df, merged_count, idx, before, log, output>>
    /\ UNCHANGED callVars

\* merge_all_vm_data: the base is selected
MergeSelectBase ==
    /\ pc = "merge"
    /\ csv_data # << >>
    /\ SelectBaseKey(csv_data) # ""
    /\ base_key' = SelectBaseKey(csv_data)
    /\ pc' = "aggregate_base"
    /\ UNCHANGED <<entry, df, aggregated_df, path, csv_data, base_df,
                   result_df, merged_count, idx, before, log, merged_df, output>>
    /\ UNCHANGED callVars

\* merge_all_vm_data: the base is empty after aggregation, "return pd.DataFrame()"
MergeBaseEmpty ==
    /\ pc = "aggregate_base"
    /\ AggregateCalled(Lookup(csv_data, base_key))
    /\ IsEmpty(aggregated_df')
    /\ base_df' = aggregated_df'
    /\ merged_df' = EmptyFrame
    /\ pc' = "merge_returned"
    /\ UNCHANGED <<entry, csv_data, base_key, result_df, merged_count, idx, before, log, output>>
    /\ UNCHANGED callVars

\* merge_all_vm_data: the base is aggregated and its columns are renamed
MergeBaseReady ==
    /\ pc = "aggregate_base"
    /\ AggregateCalled(Lookup(csv_data, base_key))
    /\ ~IsEmpty(aggregated_df')
    /\ base_df' = aggregated_df'
    /\ result_df' = Renamed(base_key, aggregated_df')
    /\ merged_count' = 1
    /\ idx' = 1
    /\ pc' = "loop"
    /\ UNCHANGED <<entry, csv_data, base_key, before, log, merged_df, output>>
    /\ UNCHANGED callVars

\* the loop's first test: the base itself, an empty table, a table without the key
Skipped(e) == e.key = base_key \/ IsEmpty(e.df) \/ ~HasColumn(e.df, VM_UUID)

\* loop iteration: "continue" at the first test
LoopSkip ==
    /\ pc = "loop"
    /\ idx <= Len(csv_data)
    /\ Skipped(csv_data[idx])
    /\ before' = Snapshot
    /\ log' = Append(log, [key |-> csv_data[idx].key, did |-> "skipped"])
    /\ idx' = idx + 1
    /\ UNCHANGED <<pc, entry, df, aggregated_df, path, csv_data, base_key, base_df,
                   result_df, merged_count, merged_df, output>>
    /\ UNCHANGED callVars

\* loop iteration: the category is empty after aggregation, "continue"
LoopEmptyAfterAggregation ==
    /\ pc = "loop"
    /\ idx <= Len(csv_data)
    /\ ~Skipped(csv_data[idx])
    /\ AggregateCalled(csv_data[idx].df)
    /\ IsEmpty(aggregated_df')
    /\ before' = Snapshot
    /\ log' = Append(log, [key |-> csv_data[idx].key, did |-> "empty"])
    /\ idx' = idx + 1
    /\ UNCHANGED <<pc, entry, csv_data, base_key, base_df, result_df, merged_count,
                   merged_df, output>>
    /\ UNCHANGED callVars

\* LoopMergeFails counting the category as merged
LoopMergeFailsCounted ==
    /\ pc = "loop"
    /\ idx <= Len(csv_data)
    /\ ~Skipped(csv_data[idx])
    /\ AggregateCalled(csv_data[idx].df)
    /\ ~IsEmpty(aggregated_df')
    /\ \E merge_df \in {Renamed(csv_data[idx].key, aggregated_df')} : MergeRaises(result_df, merge_df)
    /\ before' = Snapshot
    /\ merged_count' = merged_count + 1
    /\ log' = Append(log, [key |-> csv_data[idx].key, did |-> "failed"])
    /\ idx' = idx + 1
    /\ UNCHANGED <<pc, entry, csv_data, base_key, base_df, result_df, merged_df, output>>
    /\ UNCHANGED callVars

\* loop iteration: the merge raises, the except clause continues
LoopMergeFails ==
    /\ pc = "loop"
    /\ idx <= Len(csv_data)
    /\ ~Skipped(csv_data[idx])
    /\ AggregateCalled(csv_data[idx].df)
    /\ ~IsEmpty(aggregated_df')
    /\ \E merge_df \in {Renamed(csv_data[idx].key, aggregated_df')} : MergeRaises(result_df, merge_df)
    /\ before' = Snapshot
    /\ log' = Append(log, [key |-> csv_data[idx].key, did |-> "failed"])
    /\ idx' = idx + 1
    /\ UNCHANGED <<pc, entry, csv_data, base_key, base_df, result_df, merged_count,
                   merged_df, output>>
    /\ UNCHANGED callVars

\* loop iteration: the category is aggregated, renamed and left-joined
LoopMerged ==
    /\ pc = "loop"
    /\ idx <= Len(csv_data)
    /\ ~Skipped(csv_data[idx])
    /\ AggregateCalled(csv_data[idx].df)
    /\ ~IsEmpty(aggregated_df')
    /\ before' = Snapshot
    /\ \E merge_df \in {Renamed(csv_data[idx].key, aggregated_df')} :
           /\ ~MergeRaises(result_df, merge_df)
           /\ result_df' = LeftMerge(result_df, merge_df)
    /\ merged_count' = merged_count + 1
    /\ log' = Append(log, [key |-> csv_data[idx].key, did |-> "merged"])
    /\ idx' = idx + 1
    /\ UNCHANGED <<pc, entry, csv_data, base_key, base_df, merged_df, output>>
    /\ UNCHANGED callVars

\* merge_all_vm_data: "return result_df"
MergeReturn ==
    /\ pc = "loop"
    /\ idx > Len(csv_data)
    /\ merged_df' = result_df
    /\ pc' = "merge_returned"
    /\ UNCHANGED <<entry, df, aggregated_df, path, csv_data, base_key, base_df,
                   result_df, merged_count, idx, before, log, output>>
    /\ UNCHANGED callVars

\* process: "if merged_df is None or merged_df.empty: return None"
ProcessMergeFailed ==
    /\ pc = "merge_returned"
    /\ entry = "process"
    /\ IsEmpty(merged_df)
    /\ output' = "None"
    /\ pc' = "done"
    /\ UNCHANGED <<entry, df, aggregated_df, path, csv_data, base_key, base_df,
                   result_df, merged_count, idx, before, log, merged_df>>
    /\ UNCHANGED callVars

\* process: the merged table goes on to the filters and the output file
ProcessMerged ==
    /\ pc = "merge_returned"
    /\ entry = "process"
    /\ ~IsEmpty(merged_df)
    /\ pc' = "apply_power_filter"
    /\ UNCHANGED <<entry, df, aggregated_df, path, csv_data, base_key, base_df,
                   result_df, merged_count, idx, before, log, merged_df, output>>
    /\ UNCHANGED callVars

\* a direct call of aggregate_vm_data
AggregateCall ==
    /\ pc = "aggregate"
    /\ AggregateCalled(df)
    /\ pc' = "aggregate_returned"
    /\ UNCHANGED <<entry, csv_data, base_key, base_df, result_df, merged_count, idx,
                   before, log, merged_df, output>>
    /\ UNCHANGED callVars

\* the variables of aggregate_vm_data, merge_all_vm_data and process, pc aside
pipelineVars == <<entry, aggregated_df, path, csv_data, base_key, base_df,
                  result_df, merged_count, idx, before, log, merged_df, output>>

\* a direct call of convert_mib_to_gb
ConvertCall ==
    /\ pc = "convert"
    /\ converted_df' = convert_mib_to_gb(df)
    /\ pc' = "convert_returned"
    /\ UNCHANGED <<df, reconverted_df, pipelineVars, loadVars, shapeVars, tempVars, costVars>>

\* convert_mib_to_gb called on the table it returned
ConvertAgain ==
    /\ pc = "convert_returned"
    /\ reconverted_df' = convert_mib_to_gb(converted_df)
    /\ pc' = "convert_returned_again"
    /\ UNCHANGED <<df, converted_df, pipelineVars, loadVars, shapeVars, tempVars, costVars>>


\* what a step of extract_and_read_all_csvs leaves alone
loadFrame == <<entry, df, aggregated_df, path, base_key, base_df, result_df, merged_count,
               idx, before, log, merged_df, output, converted_df, reconverted_df, archive,
               shapeVars, tempVars, costVars>>

\* the member the loop of extract_and_read_all_csvs is at
Member == archive.members[file_pos + 1]
InLoop == pc = "load" /\ archive.valid /\ file_pos < Len(archive.members)
\* the body of the loop was entered for a member whose read gave a table
Read == InLoop /\ EndsWith(Member.file, ".csv") /\ ~Member.raises
Line(filename, what, key) == [file |-> filename, what |-> what, key |-> key]

\* zipfile.ZipFile or extractall raises: the outer handler returns {}
LoadExtractFails ==
    /\ pc = "load"
    /\ ~archive.valid
    /\ csv_data' = << >>
    /\ pc' = "loaded"
    /\ UNCHANGED <<file_pos, all_files, skipped_files, report, loadFrame>>

\* a member whose name does not end in '.csv'
LoadNotCsv ==
    /\ InLoop
    /\ ~EndsWith(Member.file, ".csv")
    /\ file_pos' = file_pos + 1
    /\ UNCHANGED <<pc, csv_data, all_files, skipped_files, report, loadFrame>>

\* detect_encoding or read_csv raises: the inner handler records the file
LoadReadFails ==
    /\ InLoop
    /\ EndsWith(Member.file, ".csv")
    /\ Member.raises
    /\ \E filename \in {Lower(Member.file)} :
          /\ all_files' = Append(all_files, filename)
          /\ skipped_files' = Append(skipped_files, filename)
          /\ report' = Append(report, Line(filename, "error", ""))
    /\ file_pos' = file_pos + 1
    /\ UNCHANGED <<pc, csv_data, loadFrame>>

\* 'VM UUID' not in df.columns
LoadSkipNoKey ==
    /\ Read
    /\ ~HasColumn(StripColumns(Member.table), VM_UUID)
    /\ \E filename \in {Lower(Member.file)} :
          /\ all_files' = Append(all_files, filename)
          /\ skipped_files' = Append(skipped_files, filename)
          /\ report' = Append(report, Line(filename, "no_key", ""))
    /\ file_pos' = file_pos + 1
    /\ UNCHANGED <<pc, csv_data, loadFrame>>

\* len(df) == 0
LoadSkipEmpty ==
    /\ Read
    /\ HasColumn(StripColumns(Member.table), VM_UUID)
    /\ NoRows(Member.table)
    /\ \E filename \in {Lower(Member.file)} :
          /\ all_files' = Append(all_files, filename)
          /\ skipped_files' = Append(skipped_files, filename)
          /\ report' = Append(report, Line(filename, "empty", ""))
    /\ file_pos' = file_pos + 1
    /\ UNCHANGED <<pc, csv_data, loadFrame>>

\* a pattern of vm_data_files is in the file name
LoadCategorized ==
    /\ Read
    /\ HasColumn(StripColumns(Member.table), VM_UUID)
    /\ ~NoRows(Member.table)
    /\ \E filename \in {Lower(Member.file)} : \E file_key \in {FileKey(filename)} :
          /\ file_key # ""
          /\ all_files' = Append(all_files, filename)
          /\ csv_data' = Store(csv_data, file_key, StripColumns(Member.table))
          /\ report' = Append(report, Line(filename, "categorized", file_key))
    /\ file_pos' = file_pos + 1
    /\ UNCHANGED <<pc, skipped_files, loadFrame>>

\* no pattern is in the file name: stored under the cleaned file name
LoadUncategorized ==
    /\ Read
    /\ HasColumn(StripColumns(Member.table), VM_UUID)
    /\ ~NoRows(Member.table)
    /\ \E filename \in {Lower(Member.file)} :
          /\ FileKey(filename) = ""
          /\ all_files' = Append(all_files, filename)
          /\ csv_data' = Store(csv_data, CleanName(filename), StripColumns(Member.table))
          /\ report' = Append(report, Line(filename, "stored", CleanName(filename)))
    /\ file_pos' = file_pos + 1
    /\ UNCHANGED <<pc, skipped_files, loadFrame>>

\* the walk is over: return csv_data, extract_dir
LoadReturn ==
    /\ pc = "load"
    /\ archive.valid
    /\ file_pos = Len(archive.members)
    /\ pc' = "loaded"
    /\ UNCHANGED <<csv_data, file_pos, all_files, skipped_files, report, loadFrame>>


\* what a call of the output shaper leaves alone
shapeFrame == <<entry, df, aggregated_df, path, csv_data, base_key, base_df, result_df,
                merged_count, idx, before, log, merged_df, output, converted_df,
                reconverted_df, loadVars, include_all, comprehensive_output, tempVars,
                costVars>>

\* apply_power_filter(merged_df)
PowerFilterCall ==
    /\ pc = "apply_power_filter"
    /\ \E r \in {apply_power_filter(merged_df, include_all)} :
          /\ filtered_df' = r.df
          /\ pc' = IF r.raised THEN "power_raised" ELSE "filter_output_columns"
    /\ UNCHANGED <<final_df, refiltered_df, shapeFrame>>

\* filter_output_columns(filtered_df)
FilterColumnsCall ==
    /\ pc = "filter_output_columns"
    /\ final_df' = filter_output_columns(filtered_df, comprehensive_output)
    /\ pc' = "filter_returned"
    /\ UNCHANGED <<filtered_df, refiltered_df, shapeFrame>>

\* filter_output_columns called on the table it returned
FilterColumnsAgain ==
    /\ pc = "filter_returned"
    /\ refiltered_df' = filter_output_columns(final_df, comprehensive_output)
    /\ pc' = "filter_returned_again"
    /\ UNCHANGED <<filtered_df, final_df, shapeFrame>>


\* what a step of process itself leaves alone
processFrame == <<entry, df, aggregated_df, path, csv_data, base_key, base_df, result_df,
                  merged_count, idx, before, log, merged_df, converted_df, reconverted_df,
                  loadVars, shapeVars, costVars>>

\* process: extract_and_read_all_csvs returned csv_data and extract_dir; the
\* directory is there when the ZIP file was extracted, and may be there in
\* part when the extraction raised
ProcessExtracted ==
    /\ pc = "loaded"
    /\ entry = "process"
    /\ dir_exists' \in (IF archive.valid THEN {TRUE} ELSE BOOLEAN)
    /\ pc' = "process"
    /\ UNCHANGED <<output, cleanup_calls, processFrame>>

\* ProcessRaised leaving process without the finally clause
ProcessRaisedPastFinally ==
    /\ pc = "power_raised"
    /\ entry = "process"
    /\ output' = "raised"
    /\ pc' = "returned"
    /\ UNCHANGED <<tempVars, processFrame>>

\* process: apply_power_filter raised; there is no except clause, the
\* exception leaves process through the finally clause
ProcessRaised ==
    /\ pc = "power_raised"
    /\ entry = "process"
    /\ output' = "raised"
    /\ pc' = "done"
    /\ UNCHANGED <<tempVars, processFrame>>

\* process: final_df is written with to_csv, "return output_file"
ProcessWrite ==
    /\ pc = "filter_returned"
    /\ entry = "process"
    /\ output' = "output_file"
    /\ pc' = "done"
    /\ UNCHANGED <<tempVars, processFrame>>

\* process: the finally clause calls cleanup(extract_dir); rmtree removes the
\* directory or raises, which cleanup swallows
ProcessFinally ==
    /\ pc = "done"
    /\ entry = "process"
    /\ cleanup_calls' = cleanup_calls + 1
    /\ dir_exists' \in (IF dir_exists THEN BOOLEAN ELSE {FALSE})
    /\ pc' = "returned"
    /\ UNCHANGED <<output, processFrame>>

---------------------------------------------------------------------------
(* src/vm_bom.py: calculate_vm_pricing and generate_cost_report.  Quantities *)
(* are whole numbers, unit prices are in millionths of a euro and costs in  *)
(* cents.                                                                   *)

\* VMBOMGenerator.pricing_data: the unit prices, in millionths of a euro
pricing_data == [compute |-> 27900, memory |-> 1860, storage |-> 23715,
                 storage_vpu |-> 1581, windows |-> 85560]
hours_per_month == 744
VpusPerGb == 10

\* round(cost, 2) of a cost given in millionths of a euro, in cents
RoundToCents(micro) == (micro + 5000) \div 10000

detect_os_type(os_config) ==
    Bind(Lower(os_config), LAMBDA os_lower :
        IF Contains(os_lower, "windows") \/ Contains(os_lower, "microsoft") THEN "windows"
        ELSE IF \E linux \in {"ubuntu", "centos", "oracle linux", "debian", "suse", "linux"} :
                    Contains(os_lower, linux)
             THEN "linux"
             ELSE "other")

calculate_ocpu_count(cpu_cpus) ==
    IF cpu_cpus <= 0 THEN 0
    ELSE IF cpu_cpus = 1 THEN 1
    ELSE (cpu_cpus + 1) \div 2

BOMLine(vm, component, quantity, micro) ==
    [vm_name |-> vm.vm_name, component_type |-> component, quantity |-> quantity,
     total_cost |-> RoundToCents(micro)]

\* calculate_vm_pricing with the test of the power state left out
calculate_vm_pricing_AnyPowerState(vm_spec) ==
    Bind(calculate_ocpu_count(vm_spec.cpu_cpus), LAMBDA ocpu_count :
        IF ocpu_count = 0 /\ vm_spec.mem_size_gb = 0 /\ vm_spec.disk_total_capacity_gb = 0
        THEN << >>
        ELSE (IF ocpu_count > 0
              THEN <<BOMLine(vm_spec, "Compute", ocpu_count,
                             ocpu_count * pricing_data.compute * hours_per_month)>>
              ELSE << >>)
             \o (IF vm_spec.mem_size_gb > 0
                 THEN <<BOMLine(vm_spec, "Memory", vm_spec.mem_size_gb,
                                vm_spec.mem_size_gb * pricing_data.memory * hours_per_month)>>
                 ELSE << >>)
             \o (IF vm_spec.disk_total_capacity_gb > 0
                 THEN <<BOMLine(vm_spec, "Storage", vm_spec.disk_total_capacity_gb,
                                vm_spec.disk_total_capacity_gb * pricing_data.storage),
                        BOMLine(vm_spec, "Storage Performance",
                                vm_spec.disk_total_capacity_gb * VpusPerGb,
                                vm_spec.disk_total_capacity_gb * VpusPerGb
                                    * pricing_data.storage_vpu)>>
                 ELSE << >>)
             \o (IF detect_os_type(vm_spec.os_config) = "windows" /\ ocpu_count > 0
                 THEN <<BOMLine(vm_spec, "OS License", ocpu_count,
                                ocpu_count * pricing_data.windows * hours_per_month)>>
                 ELSE << >>))

\* the cost lines of one VM: none for a VM without resources or not powered on
calculate_vm_pricing(vm_spec) ==
    IF Lower(vm_spec.powerstate) # "poweredon"
    THEN << >>
    ELSE calculate_vm_pricing_AnyPowerState(vm_spec)

\* sum(line.total_cost for line in bom_lines)
RECURSIVE SumLinesFrom(_, _)
SumLinesFrom(lines, i) ==
    IF i > Len(lines) THEN 0 ELSE lines[i].total_cost + SumLinesFrom(lines, i + 1)
SumLines(lines) == SumLinesFrom(lines, 1)

\* vm_summaries[name] = summary: a new name goes to the end, a name already
\* there keeps its place and takes the new summary
Summarise(summaries, summary) ==
    IF \E i \in 1..Len(summaries) : summaries[i].vm_name = summary.vm_name
    THEN Tup([i \in 1..Len(summaries) |->
                 IF summaries[i].vm_name = summary.vm_name THEN summary ELSE summaries[i]])
    ELSE Append(summaries, summary)

\* sum(s['monthly_cost'] for s in vm_summaries.values())
RECURSIVE SumMonthlyFrom(_, _)
SumMonthlyFrom(summaries, i) ==
    IF i > Len(summaries) THEN 0
    ELSE summaries[i].monthly_cost + SumMonthlyFrom(summaries, i + 1)

\* the loop over all_bom_lines that fills component_totals
RECURSIVE ComponentTotalsFrom(_, _, _)
ComponentTotalsFrom(totals, lines, i) ==
    IF i > Len(lines) THEN totals
    ELSE ComponentTotalsFrom(
             IF \E n \in 1..Len(totals) : totals[n].component_type = lines[i].component_type
             THEN Tup([n \in 1..Len(totals) |->
                          IF totals[n].component_type = lines[i].component_type
                          THEN [totals[n] EXCEPT !.cost = @ + lines[i].total_cost]
                          ELSE totals[n]])
             ELSE Append(totals, [component_type |-> lines[i].component_type,
                                  cost |-> lines[i].total_cost]),
             lines, i + 1)

\* the state of generate_cost_report before it is called
NoCostReport ==
    /\ vm_specs = << >>
    /\ spec_pos = 0
    /\ all_bom_lines = << >>
    /\ vm_summaries = << >>
    /\ powered_off_vms = << >>
    /\ total_monthly = 0
    /\ component_totals = << >>

\* what a step of generate_cost_report leaves alone
costFrame == <<entry, df, aggregated_df, path, csv_data, base_key, base_df, result_df,
               merged_count, idx, before, log, merged_df, converted_df, reconverted_df,
               loadVars, shapeVars, tempVars, vm_specs>>

\* the loop "for vm_spec in vm_specs" is at the spec after spec_pos
InCostLoop ==
    /\ pc = "generate_cost_report"
    /\ entry = "generate_cost_report"
    /\ spec_pos < Len(vm_specs)
\* the loop is over
CostLoopDone ==
    /\ pc = "generate_cost_report"
    /\ entry = "generate_cost_report"
    /\ vm_specs # << >>
    /\ spec_pos = Len(vm_specs)

\* generate_cost_report: "if not vm_specs: return 'No VMs to process'"
CostNoSpecs ==
    /\ pc = "generate_cost_report"
    /\ entry = "generate_cost_report"
    /\ vm_specs = << >>
    /\ output' = "No VMs to process"
    /\ pc' = "cost_returned"
    /\ UNCHANGED <<spec_pos, all_bom_lines, vm_summaries, powered_off_vms, total_monthly,
                   component_totals, costFrame>>

\* generate_cost_report: the spec is not powered on and goes to powered_off_vms
CostPoweredOff ==
    /\ InCostLoop
    /\ Lower(vm_specs[spec_pos + 1].powerstate) # "poweredon"
    /\ powered_off_vms' = Append(powered_off_vms, vm_specs[spec_pos + 1])
    /\ spec_pos' = spec_pos + 1
    /\ UNCHANGED <<pc, output, all_bom_lines, vm_summaries, total_monthly, component_totals,
                   costFrame>>

\* generate_cost_report: the spec is powered on and has no cost line
CostNoLines ==
    /\ InCostLoop
    /\ Lower(vm_specs[spec_pos + 1].powerstate) = "poweredon"
    /\ calculate_vm_pricing(vm_specs[spec_pos + 1]) = << >>
    /\ spec_pos' = spec_pos + 1
    /\ UNCHANGED <<pc, output, all_bom_lines, vm_summaries, powered_off_vms, total_monthly,
                   component_totals, costFrame>>

\* generate_cost_report: the lines of the spec are added to all_bom_lines and
\* its summary is stored under its name
CostPriced ==
    /\ InCostLoop
    /\ Lower(vm_specs[spec_pos + 1].powerstate) = "poweredon"
    /\ \E bom_lines \in {calculate_vm_pricing(vm_specs[spec_pos + 1])} :
           /\ bom_lines # << >>
           /\ all_bom_lines' = all_bom_lines \o bom_lines
           /\ vm_summaries' = Summarise(vm_summaries,
                                        [vm_name |-> vm_specs[spec_pos + 1].vm_name,
                                         spec |-> vm_specs[spec_pos + 1],
                                         monthly_cost |-> SumLines(bom_lines),
                                         bom_lines |-> bom_lines])
    /\ spec_pos' = spec_pos + 1
    /\ UNCHANGED <<pc, output, powered_off_vms, total_monthly, component_totals, costFrame>>

\* generate_cost_report: "if not vm_summaries: return 'No valid powered-on VMs
\* with pricing found'"
CostNoSummaries ==
    /\ CostLoopDone
    /\ vm_summaries = << >>
    /\ output' = "No valid powered-on VMs with pricing found"
    /\ pc' = "cost_returned"
    /\ UNCHANGED <<spec_pos, all_bom_lines, vm_summaries, powered_off_vms, total_monthly,
                   component_totals, costFrame>>

\* generate_cost_report: the report is written, with the monthly total and
\* the totals by component type
CostReport ==
    /\ CostLoopDone
    /\ vm_summaries # << >>
    /\ total_monthly' = SumMonthlyFrom(vm_summaries, 1)
    /\ component_totals' = ComponentTotalsFrom(<< >>, all_bom_lines, 1)
    /\ output' = "report"
    /\ pc' = "cost_returned"
    /\ UNCHANGED <<spec_pos, all_bom_lines, vm_summaries, powered_off_vms, costFrame>>

---------------------------------------------------------------------------
(* Inputs *)

\* bounds of the input families
AggMaxRows == 3      \* rows of a table handed to aggregate_vm_data
MergeMaxRows == 3    \* rows of a table of the two-category mappings
MaxCats == 3         \* categories of a mapping of the shape family
MaxFiles == 3        \* members of the ZIP file
ShapeMaxRows == 2    \* rows of a table handed to apply_power_filter
ShapeMaxCols == 3    \* columns of a table of the column family
ProcMaxRows == 3     \* rows of the disk file of the scenario family
MaxSpecs == 3        \* VM specs of a list handed to generate_cost_report

\* all lists over S of length at most n
SeqsUpTo(S, n) == UNION {[1..m -> S] : m \in 0..n}

\* pandas.read_csv: a key column with a text value is object, one of numbers
\* or nulls only is numeric, one without rows is object
KeyDtype(keys) ==
    IF keys = << >> \/ \E i \in 1..Len(keys) : keys[i].k = "str" THEN "object" ELSE "number"

\* a table from its header (name and dtype per column) and its rows
Table(names, dts, rws) == [columns |-> names, dtypes |-> dts, rows |-> rws]

\* the tables of one header: the key column first, then data columns with the
\* given sets of values; at most n rows
TablesOf(names, dts, keyvals, colvals, n) ==
    LET RowSet == {<<k>> \o r : k \in keyvals, r \in colvals}
    IN  {Table(<<VM_UUID>> \o names,
               <<KeyDtype(Tup([i \in 1..Len(rws) |-> rws[i][1]]))>> \o dts,
               rws) : rws \in SeqsUpTo(RowSet, n)}

\* the tables aggregate_vm_data is called with directly
AggInputs ==
    \* an unlisted numeric column that sums; null keys
    TablesOf(<<"size">>, <<"number">>, {Str("A"), Str("B"), Null},
             {<<v>> : v \in {Num(5), Num(10), Num(20)}}, AggMaxRows)
    \* a listed sum column with a unit
    \cup TablesOf(<<"Capacity MiB">>, <<"number">>, {Str("A"), Str("B")},
                  {<<v>> : v \in {Num(512), Num(1024), Null}}, AggMaxRows)
    \* a sum column beside a numeric column with a text rule
    \cup TablesOf(<<"Num Disks", "Network">>, <<"number", "number">>, {Str("A"), Str("B")},
                  {<<v, w>> : v \in {Num(1)}, w \in {Num(7), Null}}, AggMaxRows)
    \* a mean column beside a boolean column
    \cup TablesOf(<<"CPUs", "Thin">>, <<"number", "bool">>, {Str("A"), Str("B")},
                  {<<v, w>> : v \in {Num(2), Num(4)}, w \in {Bool(TRUE)}}, AggMaxRows)
    \* a boolean column alone; numeric keys
    \cup TablesOf(<<"Template">>, <<"bool">>, {Num(1), Num(2), Null},
                  {<<w>> : w \in {Bool(TRUE), Bool(FALSE)}}, AggMaxRows)
    \* text columns: first, and the default concatenation
    \cup TablesOf(<<"VM", "Annotation">>, <<"object", "object">>, {Str("A"), Str("B")},
                  {<<v, w>> : v \in {Str("vm1")}, w \in {Str("x"), Str("y"), Null}}, AggMaxRows)
    \* a listed text column and a listed count column
    \cup TablesOf(<<"Disk Path", "Num Snapshots">>, <<"object", "number">>, {Str("A"), Str("B")},
                  {<<v, w>> : v \in {Str("p"), Str("q")}, w \in {Num(1), Null}}, AggMaxRows)
    \* tables without the key column
    \cup {Table(<<"VM", "size">>, <<"object", "number">>, rws) :
             rws \in SeqsUpTo({<<Str("vm1"), Num(5)>>}, AggMaxRows)}

InitCommon ==
    /\ aggregated_df = EmptyFrame
    /\ path = "none"
    /\ base_key = ""
    /\ base_df = EmptyFrame
    /\ result_df = EmptyFrame
    /\ merged_count = 0
    /\ idx = 0
    /\ before = [df |-> EmptyFrame, count |-> 0]
    /\ log = << >>
    /\ merged_df = EmptyFrame
    /\ output = "pending"
    /\ converted_df = EmptyFrame
    /\ reconverted_df = EmptyFrame
    /\ archive = [valid |-> TRUE, members |-> << >>]
    /\ file_pos = 0
    /\ all_files = << >>
    /\ skipped_files = << >>
    /\ report = << >>
    /\ include_all = FALSE
    /\ comprehensive_output = FALSE
    /\ filtered_df = EmptyFrame
    /\ final_df = EmptyFrame
    /\ refiltered_df = EmptyFrame
    /\ dir_exists = FALSE
    /\ cleanup_calls = 0

InitAgg ==
    /\ df \in AggInputs
    /\ pc = "aggregate"
    /\ entry = "aggregate_vm_data"
    /\ csv_data = << >>
    /\ InitCommon
    /\ NoCostReport

NextAgg == AggregateCall

SpecAgg == InitAgg /\ [][NextAgg]_vars

\* bounds of the tables handed to convert_mib_to_gb
ConvMaxCols == 2     \* columns of a table
ConvMaxRows == 2     \* rows of a table

\* the columns a table handed to convert_mib_to_gb is made of
ConvColumns ==
    << [name |-> "Size MiB", dtype |-> "number"],
       [name |-> "Size_MiB", dtype |-> "number"],
       [name |-> "SizeMiB", dtype |-> "number"],
       [name |-> "size mib", dtype |-> "number"],
       [name |-> "Free MB", dtype |-> "number"],
       [name |-> "Free_MB", dtype |-> "number"],
       [name |-> "FreeMB", dtype |-> "number"],
       [name |-> "free mb", dtype |-> "number"],
       [name |-> "Number MB", dtype |-> "number"],
       [name |-> "Speed Mbps", dtype |-> "number"],
       [name |-> "Notes MiB", dtype |-> "object"] >>

\* the cell of column j in a row of kind p: two values per column, or null
ConvCell(j, p) ==
    IF p = 3 THEN Null
    ELSE IF ConvColumns[j].dtype = "number"
         THEN Num((IF p = 1 THEN 1536 ELSE 128) + 1024 * j)
         ELSE Str(IF p = 1 THEN "a" ELSE "b")

\* the table with the columns h (positions in ConvColumns) and one row per kind in ps
ConvTable(h, ps) ==
    Table(Tup([c \in 1..Len(h) |-> ConvColumns[h[c]].name]),
          Tup([c \in 1..Len(h) |-> ConvColumns[h[c]].dtype]),
          Tup([i \in 1..Len(ps) |-> Tup([c \in 1..Len(h) |-> ConvCell(h[c], ps[i])])]))

\* the tables convert_mib_to_gb is called with directly: every choice of at
\* most ConvMaxCols columns, every list of at most ConvMaxRows row kinds
ConvInputs ==
    {ConvTable(h, ps) :
        h \in {g \in SeqsUpTo(1..Len(ConvColumns), ConvMaxCols) :
                  Len(g) > 0 /\ \A a, b \in 1..Len(g) : a < b => g[a] < g[b]},
        ps \in SeqsUpTo(1..3, ConvMaxRows)}

InitConvert ==
    /\ df \in ConvInputs
    /\ pc = "convert"
    /\ entry = "convert_mib_to_gb"
    /\ csv_data = << >>
    /\ InitCommon
    /\ NoCostReport

NextConvert == ConvertCall \/ ConvertAgain

SpecConvert == InitConvert /\ [][NextConvert]_vars

\* what read_csv gives for a file: the header, and n rows that name the file
LoadTable(header, tag, n) ==
    Table(header, Tup([i \in 1..Len(header) |-> "object"]),
          Tup([i \in 1..n |-> Tup([c \in 1..Len(header) |-> Str(IF c = 1 THEN "A" ELSE tag)])]))
File(name, raises, t) == [file |-> name, raises |-> raises, table |-> t]

\* the members of the ZIP file: names in mixed case, names holding two
\* patterns, names holding none, a name not ending in '.csv'; tables with and
\* without the key column, with a padded key header, without rows; a file
\* that cannot be read
LoadMembers ==
    { File("RVTools_tabvCPU.csv", FALSE, LoadTable(<<"VM UUID", "VM">>, "c1", 1)),
      File("RVTools_tabvCPU.csv", FALSE, LoadTable(<<"Host", "VM">>, "c2", 1)),
      File("RVTools_tabvCPU.csv", FALSE, LoadTable(<<"VM UUID", "VM">>, "c3", 0)),
      File("rvtools_tabvinfo_tabvcpu.csv", FALSE, LoadTable(<<"VM UUID", "VM">>, "i1", 2)),
      File("tabvnic_tabvnetwork.csv", FALSE, LoadTable(<<"VM UUID", "VM">>, "n1", 1)),
      File("RVTools_tabvHost.csv", FALSE, LoadTable(<<" VM UUID ", "VM ">>, "h1", 1)),
      File("tabvdisk.csv", TRUE, EmptyFrame),
      File("TABVDISK.CSV", FALSE, LoadTable(<<"VM UUID", "VM">>, "d2", 1)),
      File("RVTools_cpu.csv", FALSE, LoadTable(<<"VM UUID", "VM">>, "u1", 1)) }

\* the ZIP files extract_and_read_all_csvs is called with
LoadInputs ==
    {[valid |-> TRUE, members |-> m] : m \in SeqsUpTo(LoadMembers, MaxFiles)}
    \cup {[valid |-> FALSE, members |-> << >>]}

InitLoad ==
    /\ archive \in LoadInputs
    /\ pc = "load"
    /\ entry = "extract_and_read_all_csvs"
    /\ df = EmptyFrame
    /\ csv_data = << >>
    /\ aggregated_df = EmptyFrame
    /\ path = "none"
    /\ base_key = ""
    /\ base_df = EmptyFrame
    /\ result_df = EmptyFrame
    /\ merged_count = 0
    /\ idx = 0
    /\ before = [df |-> EmptyFrame, count |-> 0]
    /\ log = << >>
    /\ merged_df = EmptyFrame
    /\ output = "pending"
    /\ converted_df = EmptyFrame
    /\ reconverted_df = EmptyFrame
    /\ file_pos = 0
    /\ all_files = << >>
    /\ skipped_files = << >>
    /\ report = << >>
    /\ include_all = FALSE
    /\ comprehensive_output = FALSE
    /\ filtered_df = EmptyFrame
    /\ final_df = EmptyFrame
    /\ refiltered_df = EmptyFrame
    /\ dir_exists = FALSE
    /\ cleanup_calls = 0
    /\ NoCostReport

NextLoad ==
    \/ LoadExtractFails
    \/ LoadNotCsv
    \/ LoadReadFails
    \/ LoadSkipNoKey
    \/ LoadSkipEmpty
    \/ LoadCategorized
    \/ LoadUncategorized
    \/ LoadReturn

SpecLoad == InitLoad /\ [][NextLoad]_vars

\* the key of the i-th row of a merged table
RowKey(i) == Str(SubSeq("ABCDEFGH", i, i))

\* merged tables with the power state as text in any case, missing, or as a
\* number; without a power state column; with two power state columns
PowerValues(dt) ==
    IF dt = "object" THEN {Str("poweredOn"), Str("POWEREDON"), Str("poweredOff"), Null}
    ELSE {Num(1), Null}
PowerTables(header, dts) ==
    {Table(header, dts,
           Tup([i \in 1..Len(vals) |->
                   <<RowKey(i), vals[i]>> \o (IF Len(header) = 3 THEN <<Str("poweredOn")>> ELSE << >>)])) :
        vals \in SeqsUpTo(PowerValues(dts[2]), ShapeMaxRows)}
PowerFamily ==
    PowerTables(<<"VM UUID", "cpu_VM">>, <<"object", "object">>)
    \cup PowerTables(<<"VM UUID", "cpu_Powerstate">>, <<"object", "object">>)
    \cup PowerTables(<<"VM UUID", "cpu_Powerstate">>, <<"object", "number">>)
    \cup PowerTables(<<"VM UUID", "info_PowerState", "cpu_Powerstate">>, <<"object", "object", "object">>)

\* merged tables of one powered-on machine: every list of at most
\* ShapeMaxCols distinct columns, alone or after five essential columns
ShapeColumns ==
    {"VM UUID", "cpu_VM", "cpu_CPUs", "info_VM", "disk_VM", "tools_VM", "memory_Consumed",
     "info_Powerstate"}
FiveEssential == <<"VM UUID", "cpu_VM", "cpu_CPUs", "Memory_Size GB", "disk_Capacity GB">>
ShapeCell(c) ==
    IF c = VM_UUID THEN RowKey(1)
    ELSE IF Contains(Lower(c), "powerstate") THEN Str("poweredOn") ELSE Str("x")
ShapeTable(cols) ==
    Table(cols, Tup([j \in 1..Len(cols) |-> "object"]),
          <<Tup([j \in 1..Len(cols) |-> ShapeCell(cols[j])])>>)
ColumnLists ==
    {l \in SeqsUpTo(ShapeColumns, ShapeMaxCols) : \A a, b \in 1..Len(l) : l[a] = l[b] => a = b}
ColumnFamily ==
    {ShapeTable(l) : l \in ColumnLists}
    \cup {ShapeTable(FiveEssential \o l) :
             l \in {g \in ColumnLists : Len(g) <= 1 /\ \A a \in 1..Len(g) : ~InSeq(g[a], FiveEssential)}}

InitShape ==
    /\ merged_df \in PowerFamily \cup ColumnFamily
    /\ include_all \in BOOLEAN
    /\ comprehensive_output \in BOOLEAN
    /\ pc = "apply_power_filter"
    /\ entry = "apply_power_filter"
    /\ df = EmptyFrame
    /\ csv_data = << >>
    /\ aggregated_df = EmptyFrame
    /\ path = "none"
    /\ base_key = ""
    /\ base_df = EmptyFrame
    /\ result_df = EmptyFrame
    /\ merged_count = 0
    /\ idx = 0
    /\ before = [df |-> EmptyFrame, count |-> 0]
    /\ log = << >>
    /\ output = "pending"
    /\ converted_df = EmptyFrame
    /\ reconverted_df = EmptyFrame
    /\ archive = [valid |-> TRUE, members |-> << >>]
    /\ file_pos = 0
    /\ all_files = << >>
    /\ skipped_files = << >>
    /\ report = << >>
    /\ filtered_df = EmptyFrame
    /\ final_df = EmptyFrame
    /\ refiltered_df = EmptyFrame
    /\ dir_exists = FALSE
    /\ cleanup_calls = 0
    /\ NoCostReport

NextShape == PowerFilterCall \/ FilterColumnsCall \/ FilterColumnsAgain

SpecShape == InitShape /\ [][NextShape]_vars

\* the scenario family: cpu with one row per machine, memory and disk in
\* MiB with several rows per machine; 5 MiB + 5 MiB is 0.01 GB summed first
\* and 0.00 GB rounded first
ScenarioCpu ==
    Table(<<"VM UUID", "CPUs">>, <<"object", "number">>,
          << <<Str("A"), Num(2)>>, <<Str("B"), Num(4)>> >>)
ScenarioMemory ==
    Table(<<"VM UUID", "Size MiB">>, <<"object", "number">>,
          << <<Str("A"), Num(5)>>, <<Str("A"), Num(5)>>, <<Str("B"), Num(128)>> >>)
ScenarioDisk(rws) == Table(<<"VM UUID", "Capacity MiB">>, <<"object", "number">>, rws)
ScenarioArchives ==
    {[valid |-> TRUE,
      members |-> << File("RVTools_tabvCPU.csv", FALSE, ScenarioCpu),
                     File("RVTools_tabvMemory.csv", FALSE, ScenarioMemory),
                     File("RVTools_tabvDisk.csv", FALSE, ScenarioDisk(rws)) >>] :
        rws \in SeqsUpTo({<<Str("A"), Num(5)>>, <<Str("A"), Num(128)>>, <<Str("B"), Num(5)>>},
                         ProcMaxRows)}

\* cpu files with the key column second: one row per machine, and two rows
\* for machine A; with the power state as text
KeySecondCpu(keys) ==
    Table(<<"VM", "VM UUID", "Powerstate">>, <<"object", "object", "object">>,
          Tup([i \in 1..Len(keys) |->
                  <<Str("vm"), keys[i], Str(IF keys[i] = Str("A") THEN "poweredOn" ELSE "poweredOff")>>]))
\* a cpu file whose power state column holds no value
NoPowerValueCpu ==
    Table(<<"VM UUID", "VM", "Powerstate">>, <<"object", "object", "number">>,
          << <<Str("A"), Str("vm1"), Null>>, <<Str("B"), Str("vm2"), Null>> >>)
\* a cpu file with every column the essential output asks of cpu
FullCpu ==
    Table(<<"VM UUID", "Annotation", "Powerstate", "OS according to the configuration file",
            "CPUs", "VM">>,
          <<"object", "object", "object", "object", "number", "object">>,
          << <<Str("A"), Str("n1"), Str("poweredOn"), Str("linux"), Num(2), Str("vm1")>>,
             <<Str("B"), Str("n2"), Str("poweredOff"), Str("linux"), Num(4), Str("vm2")>> >>)
HostTable(header, keys) ==
    Table(header, <<KeyDtype(keys), "object">>,
          Tup([i \in 1..Len(keys) |-> <<keys[i], Str("h")>>]))

\* the exit family: a ZIP file that cannot be extracted; members that are
\* all dropped; no base category; a base that is empty after aggregation;
\* the key column second in the base; a power state column without values;
\* categories that are empty after aggregation and that fail to join; all
\* essential columns
ExitArchives ==
    { [valid |-> FALSE, members |-> << >>],
      [valid |-> TRUE,
       members |-> << File("notes.txt", FALSE, ScenarioCpu),
                      File("RVTools_tabvDisk.csv", TRUE, EmptyFrame),
                      File("RVTools_tabvCPU.csv", FALSE, HostTable(<<"Host", "VM">>, <<Str("A")>>)),
                      File("RVTools_tabvCPU.csv", FALSE, HostTable(<<"VM UUID", "VM">>, << >>)) >>],
      [valid |-> TRUE,
       members |-> << File("RVTools_tabvSnapshot.csv", FALSE, HostTable(<<"VM UUID", "Name">>, <<Str("A")>>)),
                      File("RVTools_tabvHost.csv", FALSE, HostTable(<<"VM UUID", "Host">>, <<Str("A")>>)) >>],
      [valid |-> TRUE,
       members |-> << File("RVTools_tabvCPU.csv", FALSE, HostTable(<<"VM UUID", "VM">>, <<Null, Null>>)) >>],
      [valid |-> TRUE,
       members |-> << File("RVTools_tabvCPU.csv", FALSE, KeySecondCpu(<<Str("A"), Str("B")>>)),
                      File("RVTools_tabvInfo.csv", FALSE, HostTable(<<"VM UUID", "Host">>, <<Str("A")>>)) >>],
      [valid |-> TRUE,
       members |-> << File("RVTools_tabvCPU.csv", FALSE, KeySecondCpu(<<Str("A"), Str("A"), Str("B")>>)),
                      File("RVTools_tabvInfo.csv", FALSE, HostTable(<<"VM UUID", "Host">>, <<Str("A")>>)) >>],
      [valid |-> TRUE,
       members |-> << File("RVTools_tabvCPU.csv", FALSE, NoPowerValueCpu) >>],
      [valid |-> TRUE,
       members |-> << File("RVTools_tabvCPU.csv", FALSE, ScenarioCpu),
                      File("RVTools_tabvDisk.csv", FALSE, HostTable(<<"VM UUID", "Path">>, <<Null, Null>>)),
                      File("RVTools_tabvInfo.csv", FALSE, HostTable(<<"VM UUID", "Host">>, <<Num(1), Num(2)>>)) >>],
      [valid |-> TRUE,
       members |-> << File("RVTools_tabvDisk.csv", FALSE,
                           ScenarioDisk(<< <<Str("A"), Num(1024)>>, <<Str("A"), Num(512)>> >>)),
                      File("RVTools_tabvMemory.csv", FALSE, ScenarioMemory),
                      File("RVTools_tabvCPU.csv", FALSE, FullCpu) >>] }

InitProcess ==
    /\ archive \in ScenarioArchives \cup ExitArchives
    /\ include_all \in BOOLEAN
    /\ comprehensive_output \in BOOLEAN
    /\ pc = "load"
    /\ entry = "process"
    /\ df = EmptyFrame
    /\ csv_data = << >>
    /\ aggregated_df = EmptyFrame
    /\ path = "none"
    /\ base_key = ""
    /\ base_df = EmptyFrame
    /\ result_df = EmptyFrame
    /\ merged_count = 0
    /\ idx = 0
    /\ before = [df |-> EmptyFrame, count |-> 0]
    /\ log = << >>
    /\ merged_df = EmptyFrame
    /\ output = "pending"
    /\ converted_df = EmptyFrame
    /\ reconverted_df = EmptyFrame
    /\ file_pos = 0
    /\ all_files = << >>
    /\ skipped_files = << >>
    /\ report = << >>
    /\ filtered_df = EmptyFrame
    /\ final_df = EmptyFrame
    /\ refiltered_df = EmptyFrame
    /\ dir_exists = FALSE
    /\ cleanup_calls = 0
    /\ NoCostReport

NextProcess ==
    \/ LoadExtractFails
    \/ LoadNotCsv
    \/ LoadReadFails
    \/ LoadSkipNoKey
    \/ LoadSkipEmpty
    \/ LoadCategorized
    \/ LoadUncategorized
    \/ LoadReturn
    \/ ProcessExtracted
    \/ ProcessNoData
    \/ ProcessCallMerge
    \/ MergeNoBase
    \/ MergeSelectBase
    \/ MergeBaseEmpty
    \/ MergeBaseReady
    \/ LoopSkip
    \/ LoopEmptyAfterAggregation
    \/ LoopMergeFails
    \/ LoopMerged
    \/ MergeReturn
    \/ ProcessMergeFailed
    \/ ProcessMerged
    \/ PowerFilterCall
    \/ FilterColumnsCall
    \/ ProcessRaised
    \/ ProcessWrite
    \/ ProcessFinally

SpecProcess == InitProcess /\ [][NextProcess]_vars

\* process runs on: a step that can be taken is taken
SpecProcessFair == SpecProcess /\ WF_vars(NextProcess)




\* the header of each category's file in the mappings: data columns, dtypes, values
FileNames(cat) ==
    CASE cat = "cpu" -> <<"CPUs", "extra_Cores">>
      [] cat = "info" -> <<"VM", "Template">>
      [] cat = "disk" -> <<"Capacity MiB">>
      [] cat = "snapshot" -> <<"Name">>
      [] cat = "cpu_extra" -> <<"Cores">>
FileDtypes(cat) ==
    CASE cat = "cpu" -> <<"number", "number">>
      [] cat = "info" -> <<"object", "bool">>
      [] cat = "disk" -> <<"number">>
      [] cat = "snapshot" -> <<"object">>
      [] cat = "cpu_extra" -> <<"number">>
FileCells(cat) ==
    CASE cat = "cpu" -> <<Num(2), Num(1)>>
      [] cat = "info" -> <<Str("vm1"), Bool(TRUE)>>
      [] cat = "disk" -> <<Num(1024)>>
      [] cat = "snapshot" -> <<Str("s1")>>
      [] cat = "cpu_extra" -> <<Num(8)>>

\* the file of a category with the given keys, one row per key
FileTable(cat, keys) ==
    Table(<<VM_UUID>> \o FileNames(cat), <<KeyDtype(keys)>> \o FileDtypes(cat),
          Tup([i \in 1..Len(keys) |-> <<keys[i]>> \o FileCells(cat)]))
\* the file of a category without its key column
NoKeyTable(cat) == Table(FileNames(cat), FileDtypes(cat), <<FileCells(cat)>>)

\* two categories: every list of keys in the second, with and without
\* repeated and null keys in the first
KeyFamily ==
    {<<[key |-> "cpu", df |-> FileTable("cpu", k1)], [key |-> "disk", df |-> FileTable("disk", k2)]>> :
        k1 \in SeqsUpTo({Str("A"), Null}, MergeMaxRows),
        k2 \in SeqsUpTo({Str("A"), Str("B"), Null}, MergeMaxRows)}

\* the tables a category comes with in the shape family
Variants(cat) ==
    CASE cat = "cpu" -> {FileTable("cpu", <<Str("A"), Str("B")>>), FileTable("cpu", << >>),
                         NoKeyTable("cpu")}
      [] cat = "info" -> {FileTable("info", <<Str("B"), Str("A")>>), NoKeyTable("info")}
      [] cat = "disk" -> {FileTable("disk", <<Str("A"), Str("A"), Str("C")>>),
                          FileTable("disk", <<Null, Null>>)}
      [] cat = "snapshot" -> {FileTable("snapshot", <<Str("A"), Str("C")>>),
                              FileTable("snapshot", <<Num(1)>>)}
      [] cat = "cpu_extra" -> {FileTable("cpu_extra", <<Str("B")>>)}
Categories == {"cpu", "info", "disk", "snapshot", "cpu_extra"}

\* mappings of distinct categories in any insertion order, each with one of its tables
Entries == UNION {{[key |-> c, df |-> t] : t \in Variants(c)} : c \in Categories}
ShapeFamily ==
    {m \in SeqsUpTo(Entries, MaxCats) : \A i, j \in 1..Len(m) : m[i].key = m[j].key => i = j}

\* Lists of VM specs for generate_cost_report: two powered-on specs of one
\* name (Windows with every component, Linux without disk), power states in
\* another case and empty, a powered-off spec with resources, a powered-on
\* spec without resources
VMSpec(name, os, cpus, mem, disk, power) ==
    [vm_name |-> name, os_config |-> os, cpu_cpus |-> cpus, mem_size_gb |-> mem,
     disk_total_capacity_gb |-> disk, powerstate |-> power]
SpecPool ==
    {VMSpec("vm1", "Microsoft Windows", 4, 8, 100, "poweredOn"),
     VMSpec("vm1", "Ubuntu", 1, 8, 0, "poweredOn"),
     VMSpec("vm2", "CentOS", 3, 4, 50, "PoweredOn"),
     VMSpec("vm2", "CentOS", 3, 4, 50, "poweredOff"),
     VMSpec("vm3", "", 0, 0, 0, "poweredOn"),
     VMSpec("vm3", "Other", 0, 0, 10, "")}
CostInputs == {Tup(l) : l \in SeqsUpTo(SpecPool, MaxSpecs)}

InitCost ==
    /\ vm_specs \in CostInputs
    /\ spec_pos = 0
    /\ all_bom_lines = << >>
    /\ vm_summaries = << >>
    /\ powered_off_vms = << >>
    /\ total_monthly = 0
    /\ component_totals = << >>
    /\ pc = "generate_cost_report"
    /\ entry = "generate_cost_report"
    /\ df = EmptyFrame
    /\ csv_data = << >>
    /\ InitCommon

NextCost ==
    \/ CostNoSpecs
    \/ CostPoweredOff
    \/ CostNoLines
    \/ CostPriced
    \/ CostNoSummaries
    \/ CostReport

SpecCost == InitCost /\ [][NextCost]_vars

\* what extract_and_read_all_csvs stores: tables with the key column and a row
LoaderValid(data) ==
    \A i \in 1..Len(data) : HasColumn(data[i].df, VM_UUID) /\ Len(data[i].df.rows) > 0

Init ==
    /\ \/ csv_data \in KeyFamily /\ entry = "merge_all_vm_data"
       \/ csv_data \in ShapeFamily /\ entry = "merge_all_vm_data"
       \/ csv_data \in ShapeFamily /\ LoaderValid(csv_data) /\ entry = "process"
    /\ pc = IF entry = "process" THEN "process" ELSE "merge"
    /\ df = EmptyFrame
    /\ InitCommon
    /\ NoCostReport

Next ==
    \/ ProcessNoData
    \/ ProcessCallMerge
    \/ MergeNoData
    \/ MergeNoBase
    \/ MergeSelectBase
    \/ MergeBaseEmpty
    \/ MergeBaseReady
    \/ LoopSkip
    \/ LoopEmptyAfterAggregation
    \/ LoopMergeFails
    \/ LoopMerged
    \/ MergeReturn
    \/ ProcessMergeFailed
    \/ ProcessMerged

Spec == Init /\ [][Next]_vars

---------------------------------------------------------------------------
(* Properties of aggregate_vm_data *)

\* the non-key columns of a table
NonKeyColumns(t) == {t.columns[j] : j \in 1..Len(t.columns)} \ {VM_UUID}
\* the rows of t whose key is k
RowsOfKey(t, k) == {i \in 1..Len(t.rows) : t.rows[i][Col(t, VM_UUID)] = k}
\* the numeric columns whose resolved operation is sum
SumColumns(t) == {c \in NonKeyColumns(t) : t.dtypes[Col(t, c)] = "number" /\ NumericOp(c) = "sum"}
\* the column name carries a unit marker the Unit Normalizer converts
HasUnit(c) ==
    \E lc \in {Lower(c)} : Contains(lc, "mib") \/ (Contains(lc, "mb") /\ ~Contains(lc, "mbps"))

RECURSIVE SumOfGroup(_, _, _, _)
\* the sum of the non-null whole numbers of column c in the rows i.. of t with key k
SumOfGroup(t, c, k, i) ==
    IF i > Len(t.rows) THEN 0
    ELSE (IF t.rows[i][Col(t, VM_UUID)] = k /\ ~IsNull(t.rows[i][Col(t, c)])
          THEN t.rows[i][Col(t, c)].n ELSE 0) + SumOfGroup(t, c, k, i + 1)

\* the returned table has column c, exactly one row for each key in keys and no
\* other row, and that row holds in c the sum of the key's non-null values
OneRowWithSum(c, keys) ==
    /\ HasColumn(aggregated_df, c)
    /\ KeySet(aggregated_df) = keys
    /\ \A k \in keys :
           /\ KeyCount(aggregated_df, k) = 1
           /\ \A i \in RowsOfKey(aggregated_df, k) :
                  aggregated_df.rows[i][Col(aggregated_df, c)] = Num(SumOfGroup(df, c, k, 1))

\* C1: the table aggregate_vm_data returns has at most one row per key value,
\* on every return path
C1_UniquePerKey ==
    pc = "aggregate_returned" => \A k \in KeySet(aggregated_df) : KeyCount(aggregated_df, k) = 1

\* the no-duplicates shortcut returns two rows with the null key
C1_ShortcutKeepsNullKeys ==
    /\ pc = "aggregate_returned"
    /\ path = "shortcut"
    /\ KeyCount(aggregated_df, Null) = 2

PolicyOp(t, c) ==
    IF HasRule(c) THEN aggregation_rules(c)
    ELSE IF t.dtypes[Col(t, c)] = "number"
         THEN (IF \E w \in 1..Len(SumWords) : Contains(Lower(c), SumWords[w]) THEN "sum" ELSE "mean")
         ELSE (IF Lower(c) \in FirstNames THEN "first" ELSE "concat_default")

\* C10: when rows are grouped, every non-key column gets an operation, the one
\* the two-level policy resolves: the rule table's entry, else sum or mean for
\* a numeric column, first or concat-unique for any other
C10_EveryColumnResolved ==
    (pc = "aggregate_returned" /\ path \in {"aggregated", "first_fallback"})
    => \A c \in NonKeyColumns(df) : InSeq(c, AggCols(df)) /\ AggOp(df, c) = PolicyOp(df, c)

\* a boolean column got no operation and is missing from the returned table
C10_BooleanColumnDropped ==
    /\ pc = "aggregate_returned"
    /\ path = "aggregated"
    /\ HasColumn(df, "Thin")
    /\ ~InSeq("Thin", AggCols(df))
    /\ ~HasColumn(aggregated_df, "Thin")

\* the text columns whose resolved operation joins the distinct values
ConcatColumns(t) ==
    {c \in NonKeyColumns(t) :
        t.dtypes[Col(t, c)] = "object" /\ TextOp(c) \in {"concat_rule", "concat_default"}}
\* the distinct non-null values of x in first-seen order joined by " | ", the
\* empty string when there is none
DistinctJoined(x) ==
    IF \A i \in 1..Len(x) : IsNull(x[i]) THEN Str("")
    ELSE Str(JoinStr(Unique(SelectSeq(x, LAMBDA v : ~IsNull(v)))))

\* C11: a column aggregated by concat-unique, from the rule table or by the
\* text default, holds for every group its distinct non-null values in
\* first-seen order joined by " | ", and the empty string for a group without
\* a non-null value
C11_ConcatUnique ==
    (pc = "aggregate_returned" /\ path = "aggregated")
    => \A c \in ConcatColumns(df) :
           /\ HasColumn(aggregated_df, c)
           /\ \A k \in KeySet(aggregated_df) :
                  \A i \in RowsOfKey(aggregated_df, k) :
                      aggregated_df.rows[i][Col(aggregated_df, c)] = DistinctJoined(GroupValues(df, c, k))

\* a group of a null followed by "x" under the text default came out null
C11_LeadingNullWins ==
    /\ pc = "aggregate_returned"
    /\ path = "aggregated"
    /\ df.columns = <<VM_UUID, "VM", "Annotation">>
    /\ df.rows = << <<Str("A"), Str("vm1"), Null>>, <<Str("A"), Str("vm1"), Str("x")>> >>
    /\ aggregated_df.rows = << <<Str("A"), Str("vm1"), Null>> >>

\* the position of the first row of t with key k
FirstRowOfKey(t, k) == CHOOSE i \in RowsOfKey(t, k) : \A j \in RowsOfKey(t, k) : i <= j

\* C12: when the aggregation raises, the returned table holds for every key
\* the first row observed with that key, unit-normalized, and no other row
C12_FirstRowPerKey ==
    (pc = "aggregate_returned" /\ path = "first_fallback")
    => \E normalized \in {convert_mib_to_gb(df)} :
           /\ aggregated_df.columns = normalized.columns
           /\ KeySet(aggregated_df) = {k \in KeySet(df) : ~IsNull(k)}
           /\ \A k \in KeySet(aggregated_df) :
                  /\ KeyCount(aggregated_df, k) = 1
                  /\ \A i \in RowsOfKey(aggregated_df, k) :
                         aggregated_df.rows[i] = normalized.rows[FirstRowOfKey(df, k)]

\* the fallback returned for key A a value of its second row: the first row
\* holds a null there
C12_ValueFromLaterRow ==
    /\ pc = "aggregate_returned"
    /\ path = "first_fallback"
    /\ df.columns = <<VM_UUID, "Num Disks", "Network">>
    /\ df.rows = << <<Str("A"), Num(1), Null>>, <<Str("A"), Num(1), Num(7)>> >>
    /\ aggregated_df.rows = << <<Str("A"), Num(1), Num(7)>> >>

---------------------------------------------------------------------------
(* Properties of convert_mib_to_gb *)

\* the columns of a table
Columns(t) == {t.columns[j] : j \in 1..Len(t.columns)}
\* the numeric columns whose name holds the marker m, whatever the case
MarkedColumns(t, m) ==
    {c \in Columns(t) : t.dtypes[Col(t, c)] = "number" /\ Contains(Lower(c), m)}
\* the positions of the marker m in the name c, whatever the case
MarkerAt(c, m) == {i \in 1..(Len(c) - Len(m) + 1) : Lower(SubSeq(c, i, i + Len(m) - 1)) = m}
\* the name c up to position i, without a separator at its end
Stem(c, i) ==
    IF i > 1 /\ SubSeq(c, i - 1, i - 1) \in {" ", "_"} THEN SubSeq(c, 1, i - 2)
    ELSE SubSeq(c, 1, i - 1)
\* the names c gives with a marker m replaced by the gigabyte marker, in each
\* separator style
GbNames(c, m) ==
    {Stem(c, i) \o sep \o "GB" \o SubSeq(c, i + Len(m), Len(c)) :
        i \in MarkerAt(c, m), sep \in {" ", "_", ""}}
\* cell is src / divisor rounded to a nearest hundredth; null stays null
IsRounded(cell, src, divisor) ==
    IF IsNull(src) THEN IsNull(cell)
    ELSE /\ cell.k = "num"
         /\ 100 % cell.d = 0
         /\ 200 * Abs(src.n * cell.d - divisor * src.d * cell.n) <= divisor * src.d * cell.d
\* column o of the converted table holds column c of df divided and rounded
HoldsScaled(o, c, divisor) ==
    /\ Len(converted_df.rows) = Len(df.rows)
    /\ \A i \in 1..Len(df.rows) :
           IsRounded(converted_df.rows[i][Col(converted_df, o)], df.rows[i][Col(df, c)], divisor)
\* column c of df is replaced by a gigabyte-named column holding its values
\* divided and rounded
ReplacedByGb(c, m, divisor) ==
    /\ ~HasColumn(converted_df, c)
    /\ \E o \in GbNames(c, m) : HasColumn(converted_df, o) /\ HoldsScaled(o, c, divisor)

\* C13: every numeric column whose name holds the MiB marker, whatever the
\* case, is replaced in the table convert_mib_to_gb returns by a column named
\* with the gigabyte marker that holds value/1024 rounded to 2 decimals
C13_MebibytePass ==
    pc = "convert_returned" => \A c \in MarkedColumns(df, "mib") : ReplacedByGb(c, "mib", MibDivisor)

\* the column 'size mib' was converted and nothing is returned for it
C13_LowerCaseMarkerVanishes ==
    /\ pc = "convert_returned"
    /\ df.columns = <<"size mib">>
    /\ Len(df.rows) = 1
    /\ converted_df.columns = << >>

\* column c is in the converted table with the values it has in df
KeptAsIs(c) ==
    /\ HasColumn(converted_df, c)
    /\ Len(converted_df.rows) = Len(df.rows)
    /\ \A i \in 1..Len(df.rows) :
           converted_df.rows[i][Col(converted_df, c)] = df.rows[i][Col(df, c)]

\* C14: every numeric column whose name holds the megabyte marker and not the
\* throughput marker is replaced by a gigabyte-named column holding
\* value/1000 rounded to 2 decimals; every column whose name holds the
\* throughput marker keeps its name and its values
C14_MegabytePass ==
    pc = "convert_returned" =>
        /\ \A c \in MarkedColumns(df, "mb") :
               ~Contains(Lower(c), "mbps") => ReplacedByGb(c, "mb", MbDivisor)
        /\ \A c \in Columns(df) : Contains(Lower(c), "mbps") => KeptAsIs(c)

\* the column 'free mb' was converted and nothing is returned for it, beside
\* an untouched 'Speed Mbps'
C14_LowerCaseMarkerVanishes ==
    /\ pc = "convert_returned"
    /\ df.columns = <<"free mb", "Speed Mbps">>
    /\ Len(df.rows) = 1
    /\ converted_df.columns = <<"Speed Mbps">>
    /\ KeptAsIs("Speed Mbps")

\* the three separator styles of the name X with the unit u
Styles(X, u) == {X \o " " \o u, X \o "_" \o u, X \o u}
\* the positions of the marker m in the name c, in the case given
ExactAt(c, m) == {i \in 1..(Len(c) - Len(m) + 1) : SubSeq(c, i, i + Len(m) - 1) = m}
\* the name c with the marker at position i replaced: a space before the
\* marker stays a space, an underscore stays an underscore, and a marker
\* without a separator gets an underscore
SeparatorKept(c, m, i) ==
    Stem(c, i) \o (IF i > 1 /\ SubSeq(c, i - 1, i - 1) = " " THEN " " ELSE "_") \o "GB"
        \o SubSeq(c, i + Len(m), Len(c))
\* the numeric columns of df that hold the marker m once, in the case given
ExactColumns(m) ==
    {c \in Columns(df) : df.dtypes[Col(df, c)] = "number" /\ Cardinality(ExactAt(c, m)) = 1}

C16_Idempotent ==
    pc = "convert_returned_again" => reconverted_df = converted_df

\* 'Number MB' became 'Number GB', whose lower-cased name still holds 'mb'
\* (nuMBer): the second call selected it and returned a table without it
C16_SecondCallDropsColumn ==
    /\ pc = "convert_returned_again"
    /\ df.columns = <<"Number MB">>
    /\ Len(df.rows) > 0
    /\ converted_df.columns = <<"Number GB">>
    /\ reconverted_df.columns = <<>>

\* the columns of df convert_mib_to_gb has to convert
ToConvert ==
    MarkedColumns(df, "mib")
    \cup {c \in MarkedColumns(df, "mb") : ~Contains(Lower(c), "mbps")}

\* C25: the table convert_mib_to_gb returns has as many columns as the table
\* it was given, under pairwise distinct names, and every column that is not
\* converted is in it with its name and values: so every converted column
\* has an output column of its own
C25_NoColumnLost ==
    pc = "convert_returned" =>
        /\ Len(converted_df.columns) = Len(df.columns)
        /\ Cardinality(Columns(converted_df)) = Len(converted_df.columns)
        /\ \A c \in Columns(df) \ ToConvert : KeptAsIs(c)

\* 'Free_MB' and 'FreeMB' both became 'Free_GB': two columns went in, one came out
C25_TwoColumnsMerged ==
    /\ pc = "convert_returned"
    /\ df.columns = <<"Free_MB", "FreeMB">>
    /\ Len(df.rows) = 2
    /\ converted_df.columns = <<"Free_GB">>

---------------------------------------------------------------------------
(* Properties of extract_and_read_all_csvs *)

\* the members the loop has gone through whose names end in '.csv': report
\* holds one line for each, in the same order
IsCsv(f) == EndsWith(f.file, ".csv")
\* the lower-cased name of every member, worked out once
LoweredNames == [name \in {f.file : f \in LoadMembers} |-> Lower(name)]
Seen == SelectSeq(SubSeq(archive.members, 1, file_pos), IsCsv)
\* the table of a member after the header was stripped, and whether the
\* loader has to keep it
Header(f) == Tup([c \in 1..Len(f.table.columns) |-> Strip(f.table.columns[c])])
Stripped(f) == Table(Header(f), f.table.dtypes, f.table.rows)
Valid(f) == ~f.raises /\ InSeq(VM_UUID, Header(f)) /\ Len(f.table.rows) >= 1
KeptLine(l) == l.what \in {"categorized", "stored"}
\* the names of the members seen that the loader has to drop, in order
Dropped(seen) ==
    LET NotValid(f) == ~Valid(f)
        bad == SelectSeq(seen, NotValid)
    IN  Tup([n \in 1..Len(bad) |-> LoweredNames[bad[n].file]])

\* C17: in every state of the load, every table of the category map has the
\* key column and at least one row; every file seen that cannot be read,
\* lacks the key or has no rows is in skipped_files and not in the map; and
\* every other file seen was stored: the map holds, under the key the file
\* was given, the table of the last file given that key
C17_LoaderInvariant ==
    \E seen \in {Seen} : \E valid \in {{n \in 1..Len(seen) : Valid(seen[n])}} :
        /\ \A e \in 1..Len(csv_data) :
               HasColumn(csv_data[e].df, VM_UUID) /\ Len(csv_data[e].df.rows) >= 1
        /\ Len(report) = Len(seen)
        /\ skipped_files = Dropped(seen)
        /\ \A n \in 1..Len(seen) :
               /\ KeptLine(report[n]) <=> n \in valid
               /\ n \in valid =>
                      \E e \in 1..Len(csv_data) :
                          /\ csv_data[e].key = report[n].key
                          /\ \E m \in n..Len(seen) :
                                 /\ KeptLine(report[m]) /\ report[m].key = report[n].key
                                 /\ csv_data[e].df = Stripped(seen[m])
                                 /\ \A q \in (m + 1)..Len(seen) :
                                        ~(KeptLine(report[q]) /\ report[q].key = report[n].key)
        /\ \A e \in 1..Len(csv_data) :
               /\ \E n \in 1..Len(seen) : KeptLine(report[n]) /\ report[n].key = csv_data[e].key
               /\ \A d \in 1..Len(csv_data) : csv_data[d].key = csv_data[e].key => d = e

\* a file without rows and a file without the key were skipped, the file
\* between them was loaded
C17_DroppedAroundLoaded ==
    /\ pc = "loaded"
    /\ Len(archive.members) = 3
    /\ archive.members[2].file = "RVTools_tabvHost.csv"
    /\ NoRows(archive.members[1].table)
    /\ ~HasColumn(archive.members[3].table, VM_UUID)
    /\ skipped_files = <<"rvtools_tabvcpu.csv", "rvtools_tabvcpu.csv">>
    /\ csv_data = <<[key |-> "tabvhost", df |-> LoadTable(<<"VM UUID", "VM">>, "h1", 1)]>>

PatternIn(i, name) == Contains(name, vm_data_files[i].pattern)
\* the positions in vm_data_files of the patterns each lower-cased member
\* name holds, worked out once
PatternsIn ==
    [name \in {LoweredNames[f.file] : f \in LoadMembers} |->
        {i \in 1..Len(vm_data_files) : PatternIn(i, name)}]

\* C18: every kept file whose lower-cased name holds a pattern of
\* vm_data_files is given the key of the first such pattern in the order of
\* vm_data_files, never that of a later one; a kept file is stored under its
\* cleaned name only when its name holds no pattern
C18_FirstMatchWins ==
    \E seen \in {Seen} :
        \A n \in 1..Len(report) :
            \E found \in {IF report[n].file \in DOMAIN PatternsIn THEN PatternsIn[report[n].file]
                           ELSE {i \in 1..Len(vm_data_files) : PatternIn(i, report[n].file)}} :
                /\ report[n].file = LoweredNames[seen[n].file]
                /\ report[n].what = "categorized" =>
                       \E i \in found :
                           /\ report[n].key = vm_data_files[i].key
                           /\ \A j \in 1..(i - 1) : j \notin found
                /\ report[n].what = "stored" => found = {}

\* two files whose names hold two patterns each: 'tabvinfo' comes before
\* 'tabvcpu' in the name and after it in vm_data_files, 'tabvnic' before
\* 'tabvnetwork' in the name and after it in vm_data_files
C18_TwoPatternsInName ==
    /\ pc = "loaded"
    /\ \E n \in 1..Len(report) :
           report[n] = Line("rvtools_tabvinfo_tabvcpu.csv", "categorized", "cpu")
    /\ \E n \in 1..Len(report) :
           report[n] = Line("tabvnic_tabvnetwork.csv", "categorized", "network")

\* the category names of vm_data_files
KnownCategories == {vm_data_files[i].key : i \in 1..Len(vm_data_files)}

\* C26: a file stored under a label derived from its name never gets the
\* name of a category of vm_data_files, so every categorized table of the
\* map is the table of a file whose name held the category's pattern
C26_DerivedLabelNotCategory ==
    /\ \A n \in 1..Len(report) : report[n].what = "stored" => report[n].key \notin KnownCategories
    /\ \A e \in 1..Len(csv_data) :
           csv_data[e].key \in KnownCategories =>
               \E n \in 1..Len(report) :
                   /\ report[n].what = "categorized"
                   /\ report[n].key = csv_data[e].key
                   /\ csv_data[e].df = Stripped(Seen[n])

\* 'RVTools_cpu.csv' holds no pattern, its derived label is 'cpu': it took
\* the place of the table of 'RVTools_tabvCPU.csv' and is the merge base
C26_UncategorizedTakesCpu ==
    /\ pc = "loaded"
    /\ Len(archive.members) = 2
    /\ archive.members[1].file = "RVTools_tabvCPU.csv"
    /\ archive.members[2].file = "RVTools_cpu.csv"
    /\ report[1] = Line("rvtools_tabvcpu.csv", "categorized", "cpu")
    /\ report[2] = Line("rvtools_cpu.csv", "stored", "cpu")
    /\ csv_data = <<[key |-> "cpu", df |-> LoadTable(<<"VM UUID", "VM">>, "u1", 1)]>>
    /\ SelectBaseKey(csv_data) = "cpu"

---------------------------------------------------------------------------
(* Properties of apply_power_filter and filter_output_columns *)

\* the columns of the merged table whose name indicates the power state
PowerColumns == {c \in Columns(merged_df) : Contains(Lower(c), "powerstate")}
\* the one of them the filter looks at: the first in column order
FirstPowerColumn ==
    CHOOSE c \in PowerColumns : \A o \in PowerColumns : Col(merged_df, c) <= Col(merged_df, o)
\* the row's value in that column equals 'poweredon' whatever the case
Active(row) ==
    LET cell == row[Col(merged_df, FirstPowerColumn)]
    IN  cell.k = "str" /\ Lower(cell.s) = "poweredon"

\* C19: with include_all false, apply_power_filter called on a merged table
\* with a power state column returns, without raising whatever the values of
\* that column are, exactly the rows whose value in it equals 'poweredon'
\* case-insensitively, in their order; called on a merged table without such
\* a column it returns the table as it is
C19_PowerFilter ==
    (pc # "apply_power_filter" /\ ~include_all) =>
        IF PowerColumns = {} THEN pc # "power_raised" /\ filtered_df = merged_df
        ELSE /\ pc # "power_raised"
             /\ filtered_df.columns = merged_df.columns
             /\ filtered_df.rows = SelectSeq(merged_df.rows, Active)

\* the power state column holds numbers or nothing at all (read_csv gives
\* float64 for a column without values): the call raised
C19_NumericPowerStateRaises ==
    /\ pc = "power_raised"
    /\ ~include_all
    /\ merged_df.columns = <<"VM UUID", "cpu_Powerstate">>
    /\ merged_df.dtypes[2] = "number"
    /\ Len(merged_df.rows) = 2
    /\ \A i \in 1..2 : IsNull(merged_df.rows[i][2])

\* C20: with comprehensive_output false, filter_output_columns called on the
\* table it returned returns a table with the same set of columns, also when
\* fewer than 5 essential columns were found and the fallback keywords added
\* at most 2 columns each
C20_ColumnFilterStable ==
    (pc = "filter_returned_again" /\ ~comprehensive_output) =>
        Columns(refiltered_df) = Columns(final_df)

\* three columns hold the fallback keyword 'vm': two were kept, the third
\* dropped, and the second call kept the same two
C20_FallbackCapped ==
    /\ pc = "filter_returned_again"
    /\ ~comprehensive_output
    /\ filtered_df.columns = <<"info_VM", "disk_VM", "tools_VM">>
    /\ final_df.columns = <<"info_VM", "disk_VM">>
    /\ refiltered_df.columns = <<"info_VM", "disk_VM">>

---------------------------------------------------------------------------
(* Properties of merge_all_vm_data and process *)

Last(seq) == seq[Len(seq)]
\* no option of the priority list qualifies as base
NoBaseQualifies == \A o \in 1..Len(base_options) : ~Qualifies(csv_data, base_options[o])
\* the loop has just joined a category
JustMerged == log # << >> /\ Last(log).did = "merged"

\* C2: once a base is selected, the key set of the running result, and of the
\* table merge_all_vm_data returns, is the key set of the aggregated base
\* table, whatever is merged, skipped or fails to join
C2_KeyConservation ==
    /\ pc = "loop" => KeySet(result_df) = KeySet(base_df)
    /\ (pc \in {"merge_returned", "done", "apply_power_filter"} /\ base_key # "")
          => KeySet(merged_df) = KeySet(base_df)

\* a merge returned after joining a category with a key the base lacks and
\* after a category that failed to join or was empty
C2_ForeignKeysAndFailures ==
    /\ pc = "merge_returned"
    /\ \E i \in 1..Len(log) :
           /\ log[i].did = "merged"
           /\ \E k \in KeySet(csv_data[i].df) : ~IsNull(k) /\ k \notin KeySet(base_df)
    /\ \E i \in 1..Len(log) : log[i].did \in {"failed", "empty"}
    /\ KeySet(merged_df) = KeySet(base_df)

\* C3: after each left-join the running result has one row per distinct base
\* key and as many rows as before the join
C3_OneRowPerBaseKey ==
    JustMerged =>
        /\ \A k \in KeySet(result_df) : KeyCount(result_df, k) = 1
        /\ Len(result_df.rows) = Len(before.df.rows)

\* a join onto a result with one row per key has added a row
C3_RowCountGrows ==
    /\ JustMerged
    /\ \A k \in KeySet(before.df) : KeyCount(before.df, k) = 1
    /\ Len(result_df.rows) > Len(before.df.rows)

\* C4: the base is the first category of cpu, info, memory, disk, network,
\* tools that is in the mapping, non-empty and has the key column, whatever
\* the insertion order of the mapping; a base is selected whenever one qualifies
C4_BasePriority ==
    /\ base_key # "" =>
           \E o \in 1..Len(base_options) :
               /\ base_options[o] = base_key
               /\ Qualifies(csv_data, base_key)
               /\ \A q \in 1..(o - 1) : ~Qualifies(csv_data, base_options[q])
    /\ pc \in {"aggregate_base", "loop"} => base_key # ""
    /\ (pc = "merge_returned" /\ base_key = "") => NoBaseQualifies

\* info is the base although disk, which qualifies, was inserted first and cpu
\* is in the mapping without qualifying
C4_LowerPriorityInsertedFirst ==
    /\ base_key = "info"
    /\ csv_data[1].key = "disk"
    /\ Qualifies(csv_data, "disk")
    /\ HasKey(csv_data, "cpu")
    /\ ~Qualifies(csv_data, "cpu")

\* C5: when no category of the priority list qualifies, no base is selected,
\* merge_all_vm_data returns an empty table and process returns without output
C5_NoBaseNoOutput ==
    NoBaseQualifies =>
        /\ base_key = ""
        /\ pc \in {"process", "merge", "merge_returned", "done"}
        /\ pc \in {"merge_returned", "done"} => merged_df = EmptyFrame
        /\ pc = "done" => output = "None"

\* process returned None with a usable snapshot table in the mapping
C5_SnapshotOnly ==
    /\ pc = "done"
    /\ entry = "process"
    /\ output = "None"
    /\ NoBaseQualifies
    /\ \E i \in 1..Len(csv_data) :
           /\ csv_data[i].key = "snapshot"
           /\ ~IsEmpty(csv_data[i].df)
           /\ HasColumn(csv_data[i].df, VM_UUID)

\* C6: a category that is empty after aggregation or fails to join leaves the
\* running result and the count as they were; the count is one plus the number
\* of joined categories; every category of the mapping gets its iteration
C6_FailedCategorySkipped ==
    /\ (log # << >> /\ Last(log).did \in {"empty", "failed"})
          => (result_df = before.df /\ merged_count = before.count)
    /\ idx > 0 =>
           /\ merged_count = 1 + Cardinality({i \in 1..Len(log) : log[i].did = "merged"})
           /\ Len(log) = idx - 1
           /\ \A i \in 1..Len(log) : log[i].key = csv_data[i].key
    /\ (idx > 0 /\ pc # "loop") => Len(log) = Len(csv_data)

\* a category was joined after an earlier one was empty or failed
C6_LaterCategoryMerged ==
    \E i, j \in 1..Len(log) :
        /\ i < j
        /\ log[i].did \in {"empty", "failed"}
        /\ log[j].did = "merged"

\* C7: the returned table keeps the key column's name, and every other column
\* is named <category>_<column> for a merged category and a column of that
\* category's aggregated table
C7_PrefixedNames ==
    (pc = "merge_returned" /\ idx > 0) =>
        /\ HasColumn(merged_df, VM_UUID)
        /\ \A c \in NonKeyColumns(merged_df) :
               \E i \in 1..Len(csv_data) :
                   /\ csv_data[i].key = base_key \/ log[i].did = "merged"
                   /\ \E o \in NonKeyColumns(aggregate_vm_data(csv_data[i].df)) :
                          c = csv_data[i].key \o "_" \o o

\* two categories gave the same prefixed name and the join suffixed both
C7_SuffixedNames ==
    /\ pc = "merge_returned"
    /\ HasColumn(merged_df, "cpu_extra_Cores_x")
    /\ HasColumn(merged_df, "cpu_extra_Cores_y")

\* C8: after a join, every row of a key the joined category lacks is kept as
\* it was, with null in every column the category contributed
C8_LeftOuterNulls ==
    JustMerged =>
        \A k \in KeySet(before.df) \ KeySet(aggregated_df) :
            /\ KeyCount(result_df, k) = KeyCount(before.df, k)
            /\ \A i \in RowsOfKey(result_df, k) :
                   /\ \E b \in RowsOfKey(before.df, k) :
                          SubSeq(result_df.rows[i], 1, Len(before.df.columns)) = before.df.rows[b]
                   /\ \A j \in (Len(before.df.columns) + 1)..Len(result_df.columns) :
                          IsNull(result_df.rows[i][j])

\* a join matched one base key and left another without a match
C8_UnmatchedBaseKey ==
    /\ JustMerged
    /\ Len(result_df.columns) > Len(before.df.columns)
    /\ \E k \in KeySet(before.df) : ~IsNull(k) /\ k \notin KeySet(aggregated_df)
    /\ \E k \in KeySet(before.df) : k \in KeySet(aggregated_df)

---------------------------------------------------------------------------
(* Properties of process: from the ZIP file to the output file *)

\* process has written the output file
Written == pc \in {"done", "returned"} /\ output = "output_file"
\* the categories whose columns are in the merged table, in merge order
MergeOrder ==
    <<base_key>> \o
    Tup([n \in 1..Len(SelectSeq(log, LAMBDA l : l.did = "merged")) |->
            SelectSeq(log, LAMBDA l : l.did = "merged")[n].key])
StartsWith(c, prefix) == Len(c) >= Len(prefix) /\ SubSeq(c, 1, Len(prefix)) = prefix
\* the positions in order of the categories whose prefix the column carries
CategoriesOf(c, order) == {n \in 1..Len(order) : StartsWith(c, order[n] \o "_")}
\* the fixed list of the essential columns after the key
EssentialOrder == priority_patterns \o secondary_patterns
RanksOf(c) == {n \in 1..Len(EssentialOrder) : Lower(c) = EssentialOrder[n]}

\* C21: the first column of the output file is the key column; with
\* comprehensive_output the other columns carry the prefixes of the merged
\* categories in merge order, the base first; without it the essential
\* columns come in the order of the fixed list, none twice
C21_ColumnOrder ==
    Written =>
        /\ Len(final_df.columns) >= 1
        /\ final_df.columns[1] = VM_UUID
        /\ Cardinality(Columns(final_df)) = Len(final_df.columns)
        /\ comprehensive_output =>
               \E order \in {MergeOrder} :
                   /\ \A j \in 2..Len(final_df.columns) : CategoriesOf(final_df.columns[j], order) # {}
                   /\ \A i, j \in 2..Len(final_df.columns) :
                          i < j => \E a \in CategoriesOf(final_df.columns[i], order) :
                                       \E b \in CategoriesOf(final_df.columns[j], order) : a <= b
        /\ ~comprehensive_output =>
               \A i, j \in 2..Len(final_df.columns) :
                   i < j => \A a \in RanksOf(final_df.columns[i]) :
                                \A b \in RanksOf(final_df.columns[j]) : a < b

\* the cpu file has the key column second and one row per machine: the
\* comprehensive output starts with cpu_VM, the key column comes second
C21_KeySecondInOutput ==
    /\ Written
    /\ comprehensive_output
    /\ base_key = "cpu"
    /\ base_df.columns = <<"VM", "VM UUID", "Powerstate">>
    /\ final_df.columns = <<"cpu_VM", "VM UUID", "cpu_Powerstate", "info_Host">>

\* the scenario: cpu with the columns key and CPUs and one row per machine,
\* memory with key and 'Size MiB', disk with key and 'Capacity MiB'
IsScenario ==
    /\ HasKey(csv_data, "cpu") /\ HasKey(csv_data, "memory") /\ HasKey(csv_data, "disk")
    /\ Lookup(csv_data, "cpu").columns = <<"VM UUID", "CPUs">>
    /\ Lookup(csv_data, "memory").columns = <<"VM UUID", "Size MiB">>
    /\ Lookup(csv_data, "disk").columns = <<"VM UUID", "Capacity MiB">>
\* the row of the output file for key k holds in column o the total of the
\* MiB column c of the source table t for k, divided by 1024 and rounded
\* once; null when t has no row for k
TotalInGb(o, t, c, k) ==
    /\ HasColumn(final_df, o)
    /\ \A i \in 1..Len(final_df.rows) :
           final_df.rows[i][Col(final_df, VM_UUID)] = k =>
               IF RowsOfKey(t, k) = {} THEN IsNull(final_df.rows[i][Col(final_df, o)])
               ELSE IsRounded(final_df.rows[i][Col(final_df, o)],
                              Num(SumOfGroup(t, c, k, 1)), MibDivisor)

\* C22: in the scenario the output file has one row per machine of cpu, whose
\* memory_Size GB is the machine's MiB total of the memory file divided by
\* 1024 and rounded to 2 decimals, and whose disk_Capacity GB is the sum of
\* the machine's MiB values of the disk file divided by 1024 and rounded to 2
\* decimals: summed first, rounded once
C22_RoundTrip ==
    (Written /\ IsScenario) =>
        \E cpu \in {Lookup(csv_data, "cpu")} :
            /\ Len(final_df.rows) = Len(cpu.rows)
            /\ \A k \in KeySet(cpu) :
                   /\ Cardinality(RowsOfKey(final_df, k)) = 1
                   /\ TotalInGb("memory_Size GB", Lookup(csv_data, "memory"), "Size MiB", k)
                   /\ TotalInGb("disk_Capacity GB", Lookup(csv_data, "disk"), "Capacity MiB", k)

\* machine A has two memory rows and two disk rows of 5 MiB each: 0.01 GB in
\* both columns, where each row alone rounds to 0.00 GB
C22_SummedThenRounded ==
    /\ Written
    /\ IsScenario
    /\ Lookup(csv_data, "disk").rows =
           << <<Str("A"), Num(5)>>, <<Str("A"), Num(5)>>, <<Str("B"), Num(5)>> >>
    /\ \E i \in 1..Len(final_df.rows) :
           /\ final_df.rows[i][Col(final_df, VM_UUID)] = Str("A")
           /\ final_df.rows[i][Col(final_df, "memory_Size GB")] = Frac(1, 100)
           /\ final_df.rows[i][Col(final_df, "disk_Capacity GB")] = Frac(1, 100)

\* process has ended: its try block is left, with or without the finally
\* clause run
Ended == pc \in {"done", "returned"}

\* C23: every run of process ends by writing the output file and returning
\* its name, or without output because no loaded table has the key or no
\* category qualifies as base; no exception of a later stage leaves process
C23_TwoEndings ==
    Ended =>
        \/ output = "output_file"
        \/ /\ output = "None"
           /\ \/ csv_data = << >>
              \/ SelectBaseKey(csv_data) = ""

\* the state filter raised on a power state column without text values, and
\* process let the exception through
C23_ExceptionEscapes ==
    /\ Ended
    /\ output = "raised"
    /\ ~include_all
    /\ StrRaises(merged_df, PowerCol(merged_df))

\* C24: on every exit path of process after the extraction (output written,
\* no data loaded, merge failed, exception of a later stage) cleanup is
\* invoked, exactly once, before process returns or propagates
C24_CleanupOnce ==
    /\ [](cleanup_calls <= 1)
    /\ [](pc = "returned" => cleanup_calls = 1)
    /\ [](pc = "process" => <>(pc = "returned"))

\* process propagates the exception of the state filter after one cleanup
C24_CleanedBeforePropagating ==
    /\ pc = "returned"
    /\ output = "raised"
    /\ cleanup_calls = 1

---------------------------------------------------------------------------
(* Properties of generate_cost_report *)

Reported == pc = "cost_returned" /\ output = "report"
PoweredOn(vm) == Lower(vm.powerstate) = "poweredon"

\* the sum of the line costs of the powered-on specs from position i on
RECURSIVE PoweredOnCostFrom(_, _)
PoweredOnCostFrom(specs, i) ==
    IF i > Len(specs) THEN 0
    ELSE (IF PoweredOn(specs[i])
          THEN SumLines(calculate_vm_pricing_AnyPowerState(specs[i]))
          ELSE 0)
         + PoweredOnCostFrom(specs, i + 1)
RECURSIVE SumComponentsFrom(_, _)
SumComponentsFrom(totals, i) ==
    IF i > Len(totals) THEN 0 ELSE totals[i].cost + SumComponentsFrom(totals, i + 1)

\* C27: the monthly total of the report is the sum of the line costs of all
\* powered-on VMs with at least one cost line, and so the sum of the totals
\* by component type; powered-off VMs add to neither; for every list of
\* specs, several specs of one name included
C27_CostConsistency ==
    Reported =>
        /\ total_monthly = PoweredOnCostFrom(vm_specs, 1)
        /\ total_monthly = SumComponentsFrom(component_totals, 1)
        /\ \A i \in 1..Len(all_bom_lines) :
               \E n \in 1..Len(vm_specs) :
                   /\ PoweredOn(vm_specs[n])
                   /\ vm_specs[n].vm_name = all_bom_lines[i].vm_name

\* two powered-on specs of the name vm1: the monthly total is the cost of the
\* second alone, the totals by component type hold the lines of both
C27_SameNameCountedOnce ==
    /\ Reported
    /\ Len(vm_specs) = 2
    /\ vm_specs[1].vm_name = "vm1" /\ PoweredOn(vm_specs[1])
    /\ vm_specs[2].vm_name = "vm1" /\ PoweredOn(vm_specs[2])
    /\ vm_specs[1] # vm_specs[2]
    /\ total_monthly = SumLines(calculate_vm_pricing(vm_specs[2]))
    /\ SumComponentsFrom(component_totals, 1) =
           SumLines(calculate_vm_pricing(vm_specs[1]))
               + SumLines(calculate_vm_pricing(vm_specs[2]))

====
